---- MODULE Spec2Model ----
(***************************************************************************)
(* A model of the URL-indexing pipeline of backend/: the scheduler         *)
(* (scheduler.py), the three stream workers (layer_data_preparation.py,    *)
(* layer_indexing_worker.py, layer_result_saving.py), the kv-store keys    *)
(* and streams they share, and the relational rows they read and write.    *)
(*                                                                         *)
(* Every await of the source is one step of the model: between two awaits  *)
(* a coroutine runs alone, at an await anything else may run.              *)
(***************************************************************************)
EXTENDS Integers, Sequences, FiniteSets, TLC

(***************************************************************************)
(* Program constants.                                                      *)
(***************************************************************************)
MIN_HOURS_BETWEEN_RUNS == 12
MAX_RUNS_PER_DAY == 2
L1_JOB_LIMIT == 2
L2_JOB_LIMIT == 4
L3_JOB_LIMIT == 1
max_consecutive_errors == 10
\* auth.settings.get("bingLimit", 200), auth.settings.get("googleLimit", 200)
DefaultLimit == 200
\* BingIndexingProcessor.MAX_CONCURRENT_REQUESTS, the size of self.semaphore
MAX_CONCURRENT_REQUESTS == 5

(***************************************************************************)
(* Bounds of the model.                                                    *)
(***************************************************************************)
\* the wall clock runs from hour 0 to hour MaxClock
MaxClock == 48
\* with two scheduler processes the wall clock runs to hour MaxClockTwo
MaxClockTwo == 12
\* scheduling cycles started in one behaviour (scheduler:stats total_runs)
MaxCycles == 3
\* job ids (uuid4) drawn in one behaviour
MaxJobs == 6
\* without a scheduler process the wall clock runs to hour MaxClockDb
MaxClockDb == 11
\* events of the environment in one behaviour: a command that raises, a
\* process killed and started again, a signal, an entry appended by a producer
\* outside this repository, a key that expires, an Auth row deleted
MaxEvents == 1
\* the longest url list handed to split_google_bing_urls
MaxLen == 3
\* entries queued for a worker beyond the size of its JOB_LIMIT
MaxWaiting == 1
\* commands of a read loop that raise in one behaviour, and the entries queued
\* for that read loop
MaxErrors == 10
MaxFaults == 3
\* the times a worker process that has shut down is started again
MaxRestarts == 1
\* the largest bingLimit / googleLimit an Auth row's settings hold, besides
\* the default
MaxLimit == 10
\* the longest string form of a credential (googleConfig, bingApiKey)
MaxKeyLen == 11
\* the largest retryLimit an Auth row's settings hold
MaxRetryLimit == 3
\* the chunks BingIndexingProcessor.process_job splits a url list into
MaxChunks == 2
MaxConcurrent == 2

Shops == {"a.com", "b.com"}
ShopOrder == <<"a.com", "b.com">>
Urls == {"u1", "u2"}

\* the UTC calendar day (strftime("%Y-%m-%d")) of an instant given in hours
DayOf(t) == t \div 24
Days == 0..(DayOf(MaxClock) + 1)

JobIds == 1..MaxJobs
NoTime == -1

VARIABLES
  clock,       \* datetime.now(timezone.utc), in hours
  auth,        \* relational table Auth: the shops that have a row
  creds,       \* Auth row of a shop: googleConfig and bingApiKey, and
               \* bingLimit / googleLimit of its settings
  rows,        \* relational table UrlEntry: <<shop, webUrl>> -> row
  last_run,    \* kv hash scheduler:state, shop -> time of last run (NoTime: absent)
  daily_runs,  \* kv hash scheduler:daily_runs, shop -> day -> count (0: absent)
  daily_exp,   \* the instant at which the key scheduler:daily_runs expires
  stats,       \* kv hash scheduler:stats
  sched,       \* the scheduler instances: each one's position in scheduling_cycle
  env,         \* kv hashes {stage-prefix}:{job_id}: the live envelopes
  stream,      \* the three streams, stage -> sequence of entries
  nextId,      \* the number of job ids drawn so far
  cursor,      \* consumer groups: stage -> number of entries delivered so far
  pending,     \* consumer groups: stage -> un-acknowledged entry -> its consumer
  worker,      \* the worker processes: stage, consumer name, position in main_loop
  tasks,       \* the process_job tasks (active_tasks) of all workers
  hist,        \* what happened to each delivered entry, and the environment's tally
  call         \* a function called on its own: arguments, position, results

schedVars == <<last_run, daily_runs, daily_exp, stats, sched>>
kvVars == <<env, stream, nextId>>
dbVars == <<auth, creds, rows>>
groupVars == <<cursor, pending>>
workVars == <<worker, tasks>>
vars == <<clock, dbVars, schedVars, kvVars, groupVars, workVars, hist, call>>

Stages == 1..3

\* what the kv-store holds for a shop when its evaluation begins (history)
NoPre == [jobs |-> {}, entries |-> 0, last_run |-> NoTime, count |-> 0,
          exp |-> NoTime]

\* A scheduler process in continuous mode between two cycles, after
\* init_connections has set the module's kv-store client r.  shops, base and
\* pre are history: the number of shops fetched, the number of job ids drawn
\* when the cycle began, and the kv-store's state for the shop under
\* evaluation when its evaluation began.
IdleSched == [pc |-> "idle", now |-> NoTime, todo |-> <<>>, job |-> 0,
              jnow |-> NoTime, scheduled |-> 0, skipped |-> 0,
              shops |-> 0, base |-> 0, pre |-> NoPre,
              mode |-> "continuous", r |-> TRUE]

\* A process started with --manual SHOP: asyncio.run(manual_trigger(shop)) is
\* the first thing it runs, and the module's r is still None.
ManualProcess(shop) ==
  [IdleSched EXCEPT !.pc = "manual", !.todo = <<shop>>, !.mode = "manual",
                    !.r = FALSE]

NoCall == [pc |-> "none"]

\* A credential is held as the length of its string form, len(str(value));
\* NoKey is the value None of a column that is NULL.
NoKey == -1
Keys == {NoKey} \cup 0..MaxKeyLen

\* an Auth row with a credential of full length or none for each provider,
\* whose settings hold neither bingLimit nor googleLimit: settings.get
\* returns the default
AuthRow(google, bing) ==
  [googleConfig |-> IF google THEN MaxKeyLen ELSE NoKey,
   bingApiKey |-> IF bing THEN MaxKeyLen ELSE NoKey,
   bingLimit |-> DefaultLimit, googleLimit |-> DefaultLimit]

NoStats == [last_run_at |-> NoTime, last_scheduled_count |-> 0,
            last_skipped_count |-> 0, total_shops_evaluated |-> 0,
            total_runs |-> 0]

(***************************************************************************)
(* kv-store helpers.                                                       *)
(***************************************************************************)
\* r.hset(f"{prefix}:{job_id}", mapping={data, status: "queued", created_at})
NewEnvelope(stage, shop, data, at) ==
  [stage |-> stage, shop |-> shop, data |-> data, status |-> "queued",
   message |-> "", urls_processed |-> "", created_at |-> at, ttl |-> FALSE]

\* r.xadd(stream, {"job_id": job_id, "shop": shop})
Xadd(st, stage, id, shop) ==
  [st EXCEPT ![stage] = Append(@, [job_id |-> id, shop |-> shop])]

\* r.expire(key, seconds) on an envelope: no effect on a key that is gone
ExpireEnvelope(e, id) ==
  IF id \in DOMAIN e THEN [e EXCEPT ![id].ttl = TRUE] ELSE e

(***************************************************************************)
(* The scheduler (scheduler.py).                                           *)
(***************************************************************************)
\* fetch_active_shops: the shop column of every Auth row
fetch_active_shops == SelectSeq(ShopOrder, LAMBDA s : s \in auth)

\* the hash scheduler:daily_runs as a read sees it: empty once the key expired
DailyRunsNow ==
  IF daily_exp # NoTime /\ clock >= daily_exp
    THEN [s \in Shops |-> [d \in Days |-> 0]]
    ELSE daily_runs

\* get_last_run_time, then the first test of is_shop_eligible
TooSoon(shop, now) ==
  /\ last_run[shop] # NoTime
  /\ now - last_run[shop] < MIN_HOURS_BETWEEN_RUNS

\* get_daily_run_count, then the second test of is_shop_eligible
QuotaReached(shop, now) ==
  DailyRunsNow[shop][DayOf(now)] >= MAX_RUNS_PER_DAY

\* the L1 envelopes of a shop
EnvelopesOf(shop) ==
  {j \in DOMAIN env : env[j].stage = 1 /\ env[j].shop = shop}

\* the entries of stream:L1 that name a shop
StreamEntriesOf(shop) ==
  {k \in 1..Len(stream[1]) : stream[1][k].shop = shop}

\* the state of the kv-store for a shop, as the evaluation of the shop in a
\* cycle of timestamp now finds it
Snapshot(shop, now) ==
  [jobs |-> EnvelopesOf(shop),
   entries |-> Cardinality(StreamEntriesOf(shop)),
   last_run |-> last_run[shop],
   count |-> DailyRunsNow[shop][DayOf(now)],
   exp |-> daily_exp]

\* the loop of schedule_eligible_shops moves to the next shop, or the loop ends
NextShop(s, wasScheduled) ==
  LET rest == Tail(s.todo)
      s1 == [s EXCEPT !.todo = rest, !.job = 0, !.jnow = NoTime,
                      !.scheduled = IF wasScheduled THEN @ + 1 ELSE @,
                      !.skipped = IF wasScheduled THEN @ ELSE @ + 1]
  IN  IF s.mode = "manual" THEN [s EXCEPT !.pc = "closed"]
      ELSE IF rest = <<>> THEN [s1 EXCEPT !.pc = "stats", !.pre = NoPre]
      ELSE [s1 EXCEPT !.pc = "get_last_run",
                      !.pre = Snapshot(Head(rest), s.now)]

\* The clock is read at the hours h with h % 12 = 0 or h % 12 = 11: the last
\* hour before each multiple of MIN_HOURS_BETWEEN_RUNS, and that multiple.
NextInstant(t) ==
  IF t % MIN_HOURS_BETWEEN_RUNS = MIN_HOURS_BETWEEN_RUNS - 1
    THEN t + 1
    ELSE t + MIN_HOURS_BETWEEN_RUNS - 1

Horizon ==
  CASE Cardinality(DOMAIN sched) = 0 -> MaxClockDb
    [] Cardinality(DOMAIN sched) = 1 -> MaxClock
    [] OTHER -> MaxClockTwo

\* time passes
Tick ==
  /\ NextInstant(clock) <= Horizon
  /\ clock' = NextInstant(clock)
  /\ UNCHANGED <<call, dbVars, schedVars, kvVars, groupVars, workVars, hist>>

\* scheduling_cycle up to the first await of schedule_eligible_shops: the shops
\* are fetched and the cycle's timestamp `now` is taken
CycleStart(i) ==
  /\ sched[i].pc = "idle"
  /\ hist.cycles + Cardinality({j \in DOMAIN sched :
                                   sched[j].pc \notin {"idle", "manual", "exit_1"}})
       < MaxCycles
  /\ fetch_active_shops # <<>>
  /\ sched' = [sched EXCEPT ![i] =
       [IdleSched EXCEPT !.pc = "get_last_run", !.now = clock,
                         !.todo = fetch_active_shops,
                         !.shops = Len(fetch_active_shops), !.base = nextId,
                         !.pre = Snapshot(Head(fetch_active_shops), clock)]]
  /\ UNCHANGED <<call, clock, dbVars, groupVars, workVars, hist, last_run, daily_runs, daily_exp, stats, kvVars>>

\* manual_trigger: `if not r: raise RuntimeError`, which ends the process with
\* sys.exit(1); with r set, init_connections, then schedule_job draws the job
\* id and takes its timestamp, and `now` is taken when schedule_job returns
ManualTrigger(i) ==
  LET s == sched[i] IN
  /\ s.pc = "manual"
  /\ IF ~s.r
       THEN /\ sched' = [sched EXCEPT ![i].pc = "exit_1"]
            /\ UNCHANGED nextId
       ELSE /\ nextId < MaxJobs
            /\ nextId' = nextId + 1
            /\ sched' = [sched EXCEPT ![i].pc = "job_hset",
                                      ![i].job = nextId + 1,
                                      ![i].jnow = clock]
  /\ UNCHANGED <<call, clock, dbVars, groupVars, workVars, hist, last_run, daily_runs, daily_exp, stats, env, stream>>

\* scheduling_cycle when fetch_active_shops returns no shop: `if not shops:
\* return`, before the statistics and the cleanup
CycleEmpty(i) ==
  /\ sched[i].pc = "idle"
  /\ hist.cycles + Cardinality({j \in DOMAIN sched : sched[j].pc # "idle"})
       < MaxCycles
  /\ fetch_active_shops = <<>>
  /\ hist' = [hist EXCEPT !.cycles = @ + 1, !.last = [shops |-> 0, jobs |-> 0]]
  /\ UNCHANGED <<call, clock, dbVars, groupVars, workVars, schedVars, kvVars>>

\* is_shop_eligible: await get_last_run_time(shop)
GetLastRun(i) ==
  LET s == sched[i] IN
  /\ s.pc = "get_last_run"
  /\ sched' = [sched EXCEPT ![i] =
       IF TooSoon(Head(s.todo), s.now) THEN NextShop(s, FALSE)
       ELSE [s EXCEPT !.pc = "get_count"]]
  /\ UNCHANGED <<call, clock, dbVars, groupVars, workVars, hist, last_run, daily_runs, daily_exp, stats, kvVars>>

\* is_shop_eligible: await get_daily_run_count(shop, now); an eligible shop
\* enters schedule_job, which draws the job id and takes its own timestamp
GetCount(i) ==
  LET s == sched[i] IN
  /\ s.pc = "get_count"
  /\ IF QuotaReached(Head(s.todo), s.now)
       THEN /\ sched' = [sched EXCEPT ![i] = NextShop(s, FALSE)]
            /\ UNCHANGED nextId
       ELSE /\ nextId < MaxJobs
            /\ nextId' = nextId + 1
            /\ sched' = [sched EXCEPT ![i] =
                 [s EXCEPT !.pc = "job_hset", !.job = nextId + 1, !.jnow = clock]]
  /\ UNCHANGED <<call, clock, dbVars, groupVars, workVars, hist, last_run, daily_runs, daily_exp, stats, env, stream>>

\* schedule_job: await r.hset(f"{HASH_PATH}:{job_id}", ...)
JobHset(i) ==
  LET s == sched[i] IN
  /\ s.pc = "job_hset"
  /\ env' = (s.job :> NewEnvelope(1, Head(s.todo),
                        [kind |-> "seed", shop |-> Head(s.todo)], s.jnow)) @@ env
  /\ sched' = [sched EXCEPT ![i].pc = "job_expire"]
  /\ UNCHANGED <<call, clock, dbVars, groupVars, workVars, hist, last_run, daily_runs, daily_exp, stats, stream, nextId>>

\* schedule_job: await r.expire(f"{HASH_PATH}:{job_id}", 87000)
JobExpire(i) ==
  LET s == sched[i] IN
  /\ s.pc = "job_expire"
  /\ env' = ExpireEnvelope(env, s.job)
  /\ sched' = [sched EXCEPT ![i].pc = "job_xadd"]
  /\ UNCHANGED <<call, clock, dbVars, groupVars, workVars, hist, last_run, daily_runs, daily_exp, stats, stream, nextId>>

\* schedule_job: await r.xadd(STREAM_PREFIX, {job_id, shop, action})
JobXadd(i) ==
  LET s == sched[i] IN
  /\ s.pc = "job_xadd"
  /\ stream' = Xadd(stream, 1, s.job, Head(s.todo))
  /\ sched' = [sched EXCEPT ![i].pc = "set_last_run",
                            ![i].now = IF s.mode = "manual" THEN clock ELSE @]
  /\ UNCHANGED <<call, clock, dbVars, groupVars, workVars, hist, last_run, daily_runs, daily_exp, stats, env, nextId>>

\* a faulty variant of SetLastRun: it stores the timestamp schedule_job took
SetLastRunAtJobTime(i) ==
  LET s == sched[i] IN
  /\ s.pc = "set_last_run"
  /\ last_run' = [last_run EXCEPT ![Head(s.todo)] = s.jnow]
  /\ sched' = [sched EXCEPT ![i].pc = "incr_count"]
  /\ UNCHANGED <<call, clock, dbVars, groupVars, workVars, hist, daily_runs, daily_exp, stats, kvVars>>

\* await set_last_run_time(shop, now): now is the cycle's timestamp
SetLastRun(i) ==
  LET s == sched[i] IN
  /\ s.pc = "set_last_run"
  /\ last_run' = [last_run EXCEPT ![Head(s.todo)] = s.now]
  /\ sched' = [sched EXCEPT ![i].pc = "incr_count"]
  /\ UNCHANGED <<call, clock, dbVars, groupVars, workVars, hist, daily_runs, daily_exp, stats, kvVars>>

\* increment_daily_run_count: await r.hincrby(DAILY_RUN_COUNT_KEY, key, 1)
IncrCount(i) ==
  LET s == sched[i] IN
  /\ s.pc = "incr_count"
  /\ daily_runs' = [DailyRunsNow EXCEPT ![Head(s.todo)][DayOf(s.now)] = @ + 1]
  /\ daily_exp' = IF daily_exp # NoTime /\ clock >= daily_exp THEN NoTime
                  ELSE daily_exp
  /\ sched' = [sched EXCEPT ![i].pc = "incr_expire"]
  /\ UNCHANGED <<call, clock, dbVars, groupVars, workVars, hist, last_run, stats, kvVars>>

\* increment_daily_run_count: await r.expire(DAILY_RUN_COUNT_KEY, 172800), which
\* does nothing when the key has expired since the increment; the shop is
\* appended to scheduled_shops and the loop goes on
IncrExpire(i) ==
  LET s == sched[i]
      gone == daily_exp # NoTime /\ clock >= daily_exp IN
  /\ s.pc = "incr_expire"
  /\ daily_runs' = DailyRunsNow
  /\ daily_exp' = IF gone THEN NoTime ELSE clock + 48
  /\ sched' = [sched EXCEPT ![i] =
       LET n == NextShop(s, TRUE) IN
       IF n.pc = "stats" THEN n ELSE [n EXCEPT !.pre.exp = daily_exp']]
  /\ UNCHANGED <<call, clock, dbVars, groupVars, workVars, hist, last_run, stats, kvVars>>

\* a command of the scheduler on the kv-store raises while the shop at the
\* head of the list is evaluated (history)
Faulted(s) ==
  /\ Cardinality(hist.faults) < MaxFaults
  /\ hist' = [hist EXCEPT !.faults = @ \cup {[shop |-> Head(s.todo), at |-> s.pc]}]

\* get_last_run_time: r.hget raises, `except Exception: return None`, and
\* is_shop_eligible goes on to the daily count; get_daily_run_count: r.hget
\* raises, `except Exception: return 0`, the shop is eligible and enters
\* schedule_job
StateReadFails(i) ==
  LET s == sched[i] IN
  /\ s.pc \in {"get_last_run", "get_count"}
  /\ Faulted(s)
  /\ IF s.pc = "get_last_run"
       THEN /\ sched' = [sched EXCEPT ![i].pc = "get_count"]
            /\ UNCHANGED nextId
       ELSE /\ nextId < MaxJobs
            /\ nextId' = nextId + 1
            /\ sched' = [sched EXCEPT ![i] =
                 [s EXCEPT !.pc = "job_hset", !.job = nextId + 1, !.jnow = clock]]
  /\ UNCHANGED <<call, clock, dbVars, groupVars, workVars, last_run, daily_runs, daily_exp, stats, env, stream>>

\* set_last_run_time: r.hset raises and the error is logged;
\* increment_daily_run_count: r.hincrby or r.expire raises and the error is
\* logged; schedule_eligible_shops goes on, and after
\* increment_daily_run_count the shop is appended to scheduled_shops
StateWriteFails(i) ==
  LET s == sched[i] IN
  /\ s.pc \in {"set_last_run", "incr_count", "incr_expire"}
  /\ Faulted(s)
  /\ sched' = [sched EXCEPT ![i] =
       IF s.pc = "set_last_run" THEN [s EXCEPT !.pc = "incr_count"]
       ELSE NextShop(s, TRUE)]
  /\ UNCHANGED <<call, clock, dbVars, groupVars, workVars, last_run, daily_runs, daily_exp, stats, kvVars>>

\* a faulty variant of ScheduleJobFails: the exception leaves the loop of
\* schedule_eligible_shops, and the shops that follow are not evaluated
ScheduleJobFailsEndsLoop(i) ==
  LET s == sched[i] IN
  /\ s.pc \in {"job_hset", "job_expire", "job_xadd"}
  /\ Faulted(s)
  /\ sched' = [sched EXCEPT ![i] =
       [s EXCEPT !.pc = "stats", !.todo = <<>>, !.job = 0, !.jnow = NoTime,
                 !.skipped = @ + 1, !.pre = NoPre]]
  /\ UNCHANGED <<call, clock, dbVars, groupVars, workVars, last_run, daily_runs, daily_exp, stats, kvVars>>

\* schedule_job: r.hset, r.expire or r.xadd raises; `except Exception` of
\* schedule_eligible_shops appends the shop to skipped_shops and the loop goes
\* on with the next shop
ScheduleJobFails(i) ==
  LET s == sched[i] IN
  /\ s.pc \in {"job_hset", "job_expire", "job_xadd"}
  /\ Faulted(s)
  /\ sched' = [sched EXCEPT ![i] = NextShop(s, FALSE)]
  /\ UNCHANGED <<call, clock, dbVars, groupVars, workVars, last_run, daily_runs, daily_exp, stats, kvVars>>

\* update_scheduler_stats: await r.hset(SCHEDULER_STATS_KEY, mapping=stats)
UpdateStats(i) ==
  LET s == sched[i] IN
  /\ s.pc = "stats"
  /\ stats' = [stats EXCEPT !.last_run_at = clock,
                            !.last_scheduled_count = s.scheduled,
                            !.last_skipped_count = s.skipped,
                            !.total_shops_evaluated = s.scheduled + s.skipped]
  /\ sched' = [sched EXCEPT ![i].pc = "stats_incr"]
  /\ UNCHANGED <<call, clock, dbVars, groupVars, workVars, hist, last_run, daily_runs, daily_exp, kvVars>>

\* update_scheduler_stats: await r.hincrby(SCHEDULER_STATS_KEY, "total_runs", 1)
StatsIncr(i) ==
  LET s == sched[i] IN
  /\ s.pc = "stats_incr"
  /\ stats' = [stats EXCEPT !.total_runs = @ + 1]
  /\ sched' = [sched EXCEPT ![i].pc = "cleanup"]
  /\ UNCHANGED <<call, clock, dbVars, groupVars, workVars, hist, last_run, daily_runs, daily_exp, kvVars>>

\* cleanup_old_state: every key shop:date whose date (at midnight) is before
\* now - 2 days is deleted; the cycle ends
Cleanup(i) ==
  LET s == sched[i] IN
  /\ s.pc = "cleanup"
  /\ daily_runs' = [sh \in Shops |-> [d \in Days |->
       IF d * 24 < clock - 48 THEN 0 ELSE DailyRunsNow[sh][d]]]
  /\ sched' = [sched EXCEPT ![i] = IdleSched]
  /\ hist' = [hist EXCEPT !.cycles = @ + 1,
       !.last = [shops |-> s.shops,
                 jobs |-> Cardinality({j \in DOMAIN env :
                            /\ env[j].stage = 1
                            /\ j > s.base
                            /\ \E k \in 1..Len(stream[1]) :
                                 stream[1][k].job_id = j})]]
  /\ UNCHANGED <<call, clock, dbVars, groupVars, workVars, last_run, daily_exp, stats, kvVars>>

SchedulerStep(i) ==
  \/ CycleStart(i)
  \/ GetLastRun(i)
  \/ GetCount(i)
  \/ JobHset(i)
  \/ JobExpire(i)
  \/ JobXadd(i)
  \/ SetLastRun(i)
  \/ IncrCount(i)
  \/ IncrExpire(i)
  \/ UpdateStats(i)
  \/ StatsIncr(i)
  \/ Cleanup(i)

(***************************************************************************)
(* The consumer groups and the read loop of a worker (main_loop).          *)
(***************************************************************************)
\* L1_JOB_LIMIT, L2_JOB_LIMIT, L3_JOB_LIMIT: the size of JOB_LIMIT
StageLimit(st) ==
  CASE st = 1 -> L1_JOB_LIMIT
    [] st = 2 -> L2_JOB_LIMIT
    [] OTHER -> L3_JOB_LIMIT

\* CONSUMER = f"{hostname}-{uuid4().hex[:8]}": a new name at every process start
Consumer(w) == <<w, worker[w].epoch>>

Terminal == {"completed", "failed"}

\* r.xack(stream, GROUP, msg_id)
Xack(p, st, m) ==
  LET old == p[st] IN [p EXCEPT ![st] = [k \in DOMAIN old \ {m} |-> old[k]]]

\* r.hset(key, mapping={"status": ...}): the hash is created when the key is gone
SetStatus(e, id, st, status) ==
  IF id \in DOMAIN e
    THEN [e EXCEPT ![id].status = status]
    ELSE (id :> [stage |-> st, shop |-> "", data |-> [kind |-> "none"],
                 status |-> status, message |-> "", urls_processed |-> "",
                 created_at |-> NoTime,
                 ttl |-> FALSE]) @@ e

\* the field "message" of the mapping r.hset writes with status "completed"
MessageOf(pc) ==
  CASE pc = "nourls_hset" -> "No URLs to process"
    [] pc = "nocreds_hset" -> "No valid credentials"
    [] OTHER -> ""

\* r.hset(key, mapping={..., "message": ...}) on an envelope SetStatus has written
SetMessage(e, id, message) ==
  IF message = "" THEN e ELSE [e EXCEPT ![id].message = message]

\* str(n) of a count
Str(n) ==
  CASE n = 0 -> "0"
    [] n = 1 -> "1"
    [] n = 2 -> "2"
    [] OTHER -> "many"

\* the field "urls_processed" of the mapping L1 writes with status "completed"
\* at the end of a job: str(len(url_entries))
SetUrlsProcessed(e, id, t, st) ==
  IF st = 1 /\ t.pc = "done_hset"
    THEN [e EXCEPT ![id].urls_processed = Str(Cardinality(t.url_entries))]
    ELSE e

\* r.hget(f"{HASH_PATH}:{job_id}", "data") returns None
IsGhost(st, id) ==
  \/ id \notin DOMAIN env
  \/ env[id].stage # st
  \/ env[id].data.kind = "none"

\* job.get("shop") is a non-empty string
HasShop(data) == data.kind \in {"seed", "batch", "result"}

\* r.hget(f"{HASH_PATH}:{job_id}", "status"), "gone" when the key is gone
StatusOf(id) == IF id \in DOMAIN env THEN env[id].status ELSE "gone"

TasksOf(w) == {t \in tasks : t.w = w}

\* entries of JOB_LIMIT in use: the tasks of the process inside `async with`
SemaphoreInUse(w) ==
  Cardinality({t \in TasksOf(w) : t.pc # "acquire" /\ ~t.cancelled})

NewTask(w, m, id, data) ==
  [w |-> w, msg |-> m, job |-> id, data |-> data, pc |-> "acquire",
   next |-> 0, out |-> [kind |-> "none"], url_entries |-> {},
   bing_result |-> [executed |-> FALSE, success |-> FALSE, urls |-> {}],
   google_result |-> [executed |-> FALSE, success |-> FALSE, urls |-> {}],
   cancelled |-> FALSE]

\* main_loop: xreadgroup(GROUP, CONSUMER, {STREAM: ">"}, count=1) returns an entry
Deliver(w) ==
  LET st == worker[w].stage
      m == cursor[st] + 1 IN
  /\ worker[w].pc = "read"
  /\ m <= Len(stream[st])
  /\ cursor' = [cursor EXCEPT ![st] = m]
  /\ pending' = [pending EXCEPT ![st] = (m :> Consumer(w)) @@ @]
  /\ worker' = [worker EXCEPT ![w].pc = "handle", ![w].msg = m,
                              ![w].consecutive_errors = 0]
  /\ UNCHANGED <<call, clock, dbVars, schedVars, kvVars, tasks, hist>>

\* a faulty variant of Handle: the for loop without its shutdown check
HandleWithoutShutdownCheck(w) ==
  LET st == worker[w].stage
      entry == stream[st][worker[w].msg] IN
  /\ worker[w].pc = "handle"
  /\ worker' = [worker EXCEPT ![w].pc =
       IF entry.job_id = 0 THEN "drop" ELSE "hget"]
  /\ UNCHANGED <<call, clock, dbVars, schedVars, kvVars, groupVars, tasks, hist>>

\* main_loop: the shutdown check and data.get("job_id") of the for loop
Handle(w) ==
  LET st == worker[w].stage
      entry == stream[st][worker[w].msg] IN
  /\ worker[w].pc = "handle"
  /\ worker' = [worker EXCEPT ![w].pc =
       IF worker[w].shutdown THEN "exited"
       ELSE IF entry.job_id = 0 THEN "drop" ELSE "hget"]
  /\ UNCHANGED <<call, clock, dbVars, schedVars, kvVars, groupVars, tasks, hist>>

\* main_loop: await r.hget(key, "data"), json.loads, asyncio.create_task
HGet(w) ==
  LET st == worker[w].stage
      m == worker[w].msg
      id == stream[st][m].job_id IN
  /\ worker[w].pc = "hget"
  /\ IF IsGhost(st, id) \/ env[id].data.kind = "bad_json"
       THEN /\ worker' = [worker EXCEPT ![w].pc = "drop"]
            /\ UNCHANGED <<tasks, hist>>
       ELSE /\ tasks' = tasks \cup {NewTask(w, m, id, env[id].data)}
            /\ hist' = [hist EXCEPT !.handed = @ \cup {<<st, m>>}]
            /\ worker' = [worker EXCEPT ![w].pc = "read", ![w].msg = 0,
                                        ![w].streak = 0]
  /\ UNCHANGED <<call, clock, dbVars, schedVars, kvVars, groupVars>>

\* a faulty variant of Drop: the entry is dropped without r.xack
DropWithoutAck(w) ==
  /\ worker[w].pc = "drop"
  /\ hist' = [hist EXCEPT !.dropped =
       @ \cup {<<worker[w].stage, worker[w].msg>>}]
  /\ worker' = [worker EXCEPT ![w].pc = "read", ![w].msg = 0,
                              ![w].streak = 0]
  /\ UNCHANGED <<call, clock, dbVars, schedVars, kvVars, groupVars, tasks>>

\* main_loop: await r.xack(...) of a malformed entry, a ghost job or invalid
\* JSON, then `continue`
Drop(w) ==
  LET st == worker[w].stage
      m == worker[w].msg IN
  /\ worker[w].pc = "drop"
  /\ pending' = Xack(pending, st, m)
  /\ hist' = [hist EXCEPT !.dropped = @ \cup {<<st, m>>}]
  /\ worker' = [worker EXCEPT ![w].pc = "read", ![w].msg = 0,
                              ![w].streak = 0]
  /\ UNCHANGED <<call, clock, dbVars, schedVars, kvVars, cursor, tasks>>

\* main_loop: xreadgroup returns no entry after block=2000: the counter is
\* reset, `if not messages: continue`
ReadEmpty(w) ==
  /\ worker[w].pc = "read"
  /\ ~worker[w].shutdown
  /\ cursor[worker[w].stage] >= Len(stream[worker[w].stage])
  /\ worker' = [worker EXCEPT ![w].consecutive_errors = 0, ![w].streak = 0]
  /\ UNCHANGED <<call, clock, dbVars, schedVars, kvVars, groupVars, tasks, hist>>

\* main_loop: `except redis.ConnectionError` and `except Exception`: the
\* counter is incremented; at max_consecutive_errors shutdown_event is set and
\* main_loop returns, below it the loop sleeps and goes on
Raised(w) ==
  LET n == worker[w].consecutive_errors + 1 IN
  /\ hist.raised < MaxErrors
  /\ hist' = [hist EXCEPT !.raised = @ + 1]
  /\ worker' = [worker EXCEPT
       ![w].consecutive_errors = n,
       ![w].streak = @ + 1,
       ![w].msg = 0,
       ![w].shutdown = IF n >= max_consecutive_errors THEN TRUE ELSE @,
       ![w].pc = IF n >= max_consecutive_errors THEN "exited" ELSE "read"]
  /\ UNCHANGED <<call, clock, dbVars, schedVars, kvVars, groupVars, tasks>>

\* main_loop: await asyncio.wait_for(r.xreadgroup(...)) raises
ReadError(w) ==
  /\ worker[w].pc = "read"
  /\ ~worker[w].shutdown
  /\ Raised(w)

\* main_loop: await r.hget(...) or await r.xack(...) of the for loop raises:
\* the entry read stays un-acknowledged
HandleError(w) ==
  /\ worker[w].pc \in {"hget", "drop"}
  /\ Raised(w)

\* signal_handler: shutdown_event.set()
Signal(w) ==
  /\ worker[w].pc \notin {"closed"}
  /\ ~worker[w].shutdown
  /\ hist.events < MaxEvents
  /\ hist' = [hist EXCEPT !.events = @ + 1]
  /\ worker' = [worker EXCEPT ![w].shutdown = TRUE]
  /\ UNCHANGED <<call, clock, dbVars, schedVars, kvVars, groupVars, tasks>>

\* main_loop: `while not shutdown_event.is_set()` ends the loop
Exit(w) ==
  /\ worker[w].pc = "read"
  /\ worker[w].shutdown
  /\ worker' = [worker EXCEPT ![w].pc = "exited"]
  /\ UNCHANGED <<call, clock, dbVars, schedVars, kvVars, groupVars, tasks, hist>>

\* the blocking calls a task is in while it runs in a worker thread
ThreadPcs == {"db_both", "db_google", "db_bing"}

\* a faulty variant of ShutdownCancel: CancelledError is caught by
\* `except Exception`, so that a cancelled task marks its job failed and
\* acknowledges the entry
ShutdownCancelHandled(w) ==
  LET mine == {t \in TasksOf(w) : ~t.cancelled} IN
  /\ worker[w].pc = "exited"
  /\ mine # {}
  /\ tasks' = (tasks \ mine) \cup {[t EXCEPT !.pc = "fail_hset"] : t \in mine}
  /\ hist' = [hist EXCEPT !.cancelled = @ \cup
       {[st |-> worker[w].stage, msg |-> t.msg, job |-> t.job, pc |-> t.pc,
         status |-> StatusOf(t.job),
         acked |-> t.msg \notin DOMAIN pending[worker[w].stage]] : t \in mine}]
  /\ worker' = [worker EXCEPT ![w].pc = "closed"]
  /\ UNCHANGED <<call, clock, dbVars, schedVars, kvVars, groupVars>>

\* graceful_shutdown: the wait for active_tasks times out, every remaining task
\* is cancelled (task.cancel()) and the connection is closed. A cancelled
\* task raises CancelledError at the await it is suspended in; the thread of
\* an asyncio.to_thread call runs on.
ShutdownCancel(w) ==
  LET mine == {t \in TasksOf(w) : ~t.cancelled} IN
  /\ worker[w].pc = "exited"
  /\ mine # {}
  /\ tasks' = (tasks \ mine) \cup
       {[t EXCEPT !.cancelled = TRUE] : t \in {u \in mine : u.pc \in ThreadPcs}}
  /\ hist' = [hist EXCEPT !.cancelled = @ \cup
       {[st |-> worker[w].stage, msg |-> t.msg, job |-> t.job, pc |-> t.pc,
         status |-> StatusOf(t.job),
         acked |-> t.msg \notin DOMAIN pending[worker[w].stage]] : t \in mine}]
  /\ worker' = [worker EXCEPT ![w].pc = "closed"]
  /\ UNCHANGED <<call, clock, dbVars, schedVars, kvVars, groupVars>>

\* a faulty variant of Close: cleanup_connections without the wait for
\* active_tasks
CloseWithoutWaiting(w) ==
  /\ worker[w].pc = "exited"
  /\ worker' = [worker EXCEPT ![w].pc = "closed"]
  /\ UNCHANGED <<call, clock, dbVars, schedVars, kvVars, groupVars, tasks, hist>>

\* graceful_shutdown: no task is left, the connection is closed
Close(w) ==
  /\ worker[w].pc = "exited"
  /\ {t \in TasksOf(w) : ~t.cancelled} = {}
  /\ worker' = [worker EXCEPT ![w].pc = "closed"]
  /\ UNCHANGED <<call, clock, dbVars, schedVars, kvVars, groupVars, tasks, hist>>

\* main has returned (asyncio.run has waited for the threads of
\* asyncio.to_thread) and the process is started again: shutdown_event is
\* clear, CONSUMER is a new name, and main_loop reads new entries (">")
Restart(w) ==
  /\ worker[w].pc = "closed"
  /\ worker[w].epoch < MaxRestarts
  /\ TasksOf(w) = {}
  /\ worker' = [worker EXCEPT ![w].epoch = @ + 1, ![w].pc = "read",
                              ![w].msg = 0, ![w].shutdown = FALSE,
                              ![w].consecutive_errors = 0, ![w].streak = 0]
  /\ UNCHANGED <<call, clock, dbVars, schedVars, kvVars, groupVars, tasks, hist>>

\* the process is killed (or has exited) and is started again: its tasks are
\* gone, and the new process reads under a new consumer name
Crash(w) ==
  /\ hist.events < MaxEvents
  /\ tasks' = tasks \ TasksOf(w)
  /\ hist' = [hist EXCEPT !.events = @ + 1,
                          !.lost = @ \cup
                            {<<worker[w].stage, t.msg>> : t \in TasksOf(w)} \cup
                            {<<worker[w].stage, m>> : m \in {worker[w].msg} \ {0}}]
  /\ worker' = [worker EXCEPT ![w].epoch = @ + 1, ![w].pc = "read",
                              ![w].msg = 0, ![w].shutdown = FALSE,
                              ![w].consecutive_errors = 0, ![w].streak = 0]
  /\ UNCHANGED <<call, clock, dbVars, schedVars, kvVars, groupVars>>

\* recovery_loop: xpending_range, then xclaim of an entry idle for more than
\* 60 s: the entry now belongs to this consumer
Recovery(w, m) ==
  LET st == worker[w].stage IN
  /\ worker[w].pc \notin {"exited", "closed"}
  /\ ~worker[w].shutdown
  /\ m \in DOMAIN pending[st]
  /\ pending' = [pending EXCEPT ![st][m] = Consumer(w)]
  /\ UNCHANGED <<call, clock, dbVars, schedVars, kvVars, cursor, workVars, hist>>

ReaderStep(w) ==
  \/ Deliver(w)
  \/ Handle(w)
  \/ HGet(w)
  \/ Drop(w)
  \/ Exit(w)
  \/ Close(w)

(***************************************************************************)
(* process_job of the three workers: one action per await.  A task at pc X *)
(* has issued every command before X, and X has not taken effect yet.      *)
(***************************************************************************)
Move(t, t2) == (tasks \ {t}) \cup {t2}

StageOf(t) == worker[t.w].stage

\* bing_result = None, google_result = None: the provider was not called, or
\* its call raised
NotExecuted == [executed |-> FALSE, success |-> FALSE, urls |-> {}]

\* what execute_bing_indexing / execute_google_indexing hand back for the
\* urls submitted: nothing (an exception, or a result without "results"), or
\* a result listing the urls accepted with status success and http_status 200
Outcomes(urls) ==
  {NotExecuted} \cup
  {[executed |-> TRUE, success |-> TRUE, urls |-> S] : S \in SUBSET urls}

\* set(xs): the elements of a list
ToSet(xs) == {xs[i] : i \in DOMAIN xs}

\* the urls of a provider result as the list the result holds them in
ListOf(S) ==
  CHOOSE xs \in [1..Cardinality(S) -> S] : ToSet(xs) = S

\* get_successful_google_urls
get_successful_google_urls(google) ==
  IF ~google.executed \/ ~google.success THEN <<>> ELSE ListOf(google.urls)

\* get_successful_bing_urls
get_successful_bing_urls(bing) ==
  IF ~bing.executed \/ ~bing.success THEN <<>> ELSE ListOf(bing.urls)

\* a faulty variant of split_google_bing_urls: google_only keeps the urls
\* that are in both lists
split_keeps_shared_urls(google_urls, bing_urls) ==
  LET google_set == ToSet(google_urls)
      bing_set == ToSet(bing_urls)
  IN [both |-> google_set \cap bing_set,
      google_only |-> google_set,
      bing_only |-> bing_set \ google_set]

\* split_google_bing_urls
split_google_bing_urls(google_urls, bing_urls) ==
  LET google_set == ToSet(google_urls)
      bing_set == ToSet(bing_urls)
  IN [both |-> google_set \cap bing_set,
      google_only |-> google_set \ bing_set,
      bing_only |-> bing_set \ google_set]

\* update_google_and_bing
update_google_and_bing(db, shop, urls, now) ==
  [k \in DOMAIN db |->
     IF k[1] = shop /\ k[2] \in urls
       THEN [db[k] EXCEPT !.isGoogleIndexed = TRUE, !.isBingIndexed = TRUE,
                          !.status = "COMPLETED", !.lastIndexedAt = now]
       ELSE db[k]]

\* a faulty variant of update_google_only: it also clears isBingIndexed
update_google_only_clears_bing(db, shop, urls, now) ==
  [k \in DOMAIN db |->
     IF k[1] = shop /\ ~db[k].isGoogleIndexed /\ k[2] \in urls
       THEN [db[k] EXCEPT !.isGoogleIndexed = TRUE, !.isBingIndexed = FALSE,
                          !.lastIndexedAt = now]
       ELSE db[k]]

\* update_google_only
update_google_only(db, shop, urls, now) ==
  [k \in DOMAIN db |->
     IF k[1] = shop /\ ~db[k].isGoogleIndexed /\ k[2] \in urls
       THEN [db[k] EXCEPT !.isGoogleIndexed = TRUE, !.lastIndexedAt = now]
       ELSE db[k]]

\* a faulty variant of update_bing_only: it also sets status COMPLETED
update_bing_only_completes(db, shop, urls) ==
  [k \in DOMAIN db |->
     IF k[1] = shop /\ ~db[k].isBingIndexed /\ k[2] \in urls
       THEN [db[k] EXCEPT !.isBingIndexed = TRUE, !.status = "COMPLETED"]
       ELSE db[k]]

\* update_bing_only
update_bing_only(db, shop, urls) ==
  [k \in DOMAIN db |->
     IF k[1] = shop /\ ~db[k].isBingIndexed /\ k[2] \in urls
       THEN [db[k] EXCEPT !.isBingIndexed = TRUE]
       ELSE db[k]]

\* the three url lists update_indexing_results works on
Split(t) ==
  split_google_bing_urls(get_successful_google_urls(t.data.google),
                         get_successful_bing_urls(t.data.bing))

\* a faulty variant of PendingUrls: without .eq("isGoogleIndexed", False)
PendingUrlsIndexedOrNot(shop) ==
  {u \in Urls : /\ rows[<<shop, u>>].status = "PENDING"
                /\ rows[<<shop, u>>].indexAction # "IGNORE"}

\* fetch_auth_and_urls: the url rows the filters of the query let through
PendingUrls(shop) ==
  {u \in Urls : /\ rows[<<shop, u>>].status = "PENDING"
                /\ ~rows[<<shop, u>>].isGoogleIndexed
                /\ rows[<<shop, u>>].indexAction # "IGNORE"}

\* fetch_auth_and_urls: int(max(bing_index_limit, google_index_limit) * 1.05).
\* The double nearest 1.05 lies above 21/20 by less than 2^-52, so for every
\* limit below 2^31 the product truncates to the same integer as 105 * m / 100.
final_limit(shop) ==
  LET bing_index_limit == creds[shop].bingLimit
      google_index_limit == creds[shop].googleLimit
      m == IF bing_index_limit >= google_index_limit THEN bing_index_limit
           ELSE google_index_limit
  IN (m * 105) \div 100

\* fetch_auth_and_urls: .order("attempts", desc=True).limit(final_limit): the
\* first final_limit rows, in any order the store gives to rows with the same
\* attempts
Selections(shop) ==
  LET all == PendingUrls(shop)
      n == IF final_limit(shop) < Cardinality(all) THEN final_limit(shop)
           ELSE Cardinality(all)
  IN {sel \in SUBSET all :
        /\ Cardinality(sel) = n
        /\ \A u \in sel : \A v \in all \ sel :
             rows[<<shop, u>>].attempts >= rows[<<shop, v>>].attempts}

\* L2: has_google = google_auth and len(str(google_auth)) > 10
has_google(job) ==
  LET google_auth == job.googleConfig
  IN google_auth # NoKey /\ google_auth # 0 /\ google_auth > 10

\* a faulty variant of has_bing: the length of the credential is not tested
has_bing_without_length(job) ==
  LET bing_auth == job.bingApiKey
  IN bing_auth # NoKey /\ bing_auth # 0

\* L2: has_bing = bing_auth and len(str(bing_auth)) > 10
has_bing(job) ==
  LET bing_auth == job.bingApiKey
  IN bing_auth # NoKey /\ bing_auth # 0 /\ bing_auth > 10

\* L2: response["google"], response["bing"]: the result of a provider that
\* returned one, and otherwise the reason
Block(result, has) ==
  IF result # NotExecuted
    THEN result
    ELSE [executed |-> FALSE, success |-> FALSE, urls |-> {},
          reason |-> IF ~has THEN "missing_credentials" ELSE "failed"]

\* L2: the response built once the providers have been called
Response(t, bing_result, google_result) ==
  [kind |-> "result", shop |-> t.data.shop, job_id |-> t.job,
   google |-> Block(google_result, has_google(t.data)),
   bing |-> Block(bing_result, has_bing(t.data))]

\* process_job up to its first await: JOB_LIMIT is entered, job.get("shop") is
\* tested, and L2 tests the credentials
FirstPc(st, data) ==
  IF ~HasShop(data) THEN "ack_bad"
  ELSE CASE st = 1 -> "fetch"
         [] st = 2 -> IF ~has_google(data) /\ ~has_bing(data) THEN "nocreds_hset"
                      ELSE IF has_bing(data) THEN "bing" ELSE "google"
         [] OTHER -> "db_both"

\* a faulty variant of Start: process_job runs without `async with JOB_LIMIT`
StartWithoutLimit(t) ==
  LET st == StageOf(t) IN
  /\ t.pc = "acquire"
  /\ ~t.cancelled
  /\ tasks' = Move(t, [t EXCEPT !.pc = FirstPc(st, t.data)])
  /\ UNCHANGED <<call, clock, dbVars, schedVars, kvVars, groupVars, worker, hist>>

Start(t) ==
  LET st == StageOf(t) IN
  /\ t.pc = "acquire"
  /\ ~t.cancelled
  /\ SemaphoreInUse(t.w) < StageLimit(st)
  /\ tasks' = Move(t, [t EXCEPT !.pc = FirstPc(st, t.data)])
  /\ UNCHANGED <<call, clock, dbVars, schedVars, kvVars, groupVars, worker, hist>>

\* L1: await asyncio.to_thread(fetch_auth_and_urls, shop), then the tests on
\* auth and url_entries, the actions dictionary and next_job_id
\* a faulty variant of BatchOf: every url selected goes under INDEX
BatchAllIndex(shop, sel) ==
  [kind |-> "batch", shop |-> shop,
   googleConfig |-> creds[shop].googleConfig,
   bingApiKey |-> creds[shop].bingApiKey,
   index |-> sel,
   delete |-> {}]

\* the payload of the L2 job L1 builds from the url rows selected
BatchOf(shop, sel) ==
  [kind |-> "batch", shop |-> shop,
   googleConfig |-> creds[shop].googleConfig,
   bingApiKey |-> creds[shop].bingApiKey,
   index |-> {u \in sel : rows[<<shop, u>>].indexAction = "INDEX"},
   delete |-> {u \in sel : rows[<<shop, u>>].indexAction = "DELETE"}]

\* what one run of the query of fetch_auth_and_urls used and returned, and
\* the job id drawn for the L2 job (history)
Fetched(t, sel, next) ==
  [msg |-> t.msg, job |-> t.job, shop |-> t.data.shop, urls |-> sel,
   limit |-> final_limit(t.data.shop), next |-> next]

\* a faulty variant of Fetch: without the test on url_entries, a job with no
\* url row selected builds an L2 job like any other
FetchWithoutUrlTest(t) ==
  LET shop == t.data.shop IN
  /\ t.pc = "fetch"
  /\ IF shop \notin auth
       THEN /\ tasks' = Move(t, [t EXCEPT !.pc = "ack_noauth"])
            /\ hist' = [hist EXCEPT !.noauth = @ \cup {<<StageOf(t), t.msg>>}]
            /\ UNCHANGED nextId
       ELSE \E sel \in Selections(shop) :
            /\ nextId < MaxJobs
            /\ nextId' = nextId + 1
            /\ tasks' = Move(t, [t EXCEPT !.pc = "next_hset", !.next = nextId + 1,
                                          !.url_entries = sel,
                                          !.out = BatchOf(shop, sel)])
            /\ hist' = [hist EXCEPT
                 !.fetched = @ \cup {Fetched(t, sel, nextId + 1)},
                 !.nourls = IF sel = {} THEN @ \cup {<<StageOf(t), t.msg>>}
                            ELSE @]
  /\ UNCHANGED <<call, clock, dbVars, schedVars, env, stream, groupVars, worker>>

Fetch(t) ==
  LET shop == t.data.shop IN
  /\ t.pc = "fetch"
  /\ IF shop \notin auth
       THEN /\ tasks' = Move(t, [t EXCEPT !.pc = "ack_noauth"])
            /\ hist' = [hist EXCEPT !.noauth = @ \cup {<<StageOf(t), t.msg>>}]
            /\ UNCHANGED nextId
       ELSE \E sel \in Selections(shop) :
         IF sel = {}
           THEN /\ tasks' = Move(t, [t EXCEPT !.pc = "nourls_hset"])
                /\ hist' = [hist EXCEPT
                     !.fetched = @ \cup {Fetched(t, sel, 0)},
                     !.nourls = @ \cup {<<StageOf(t), t.msg>>}]
                /\ UNCHANGED nextId
           ELSE /\ nextId < MaxJobs
                /\ nextId' = nextId + 1
                /\ tasks' = Move(t, [t EXCEPT !.pc = "next_hset",
                                              !.next = nextId + 1,
                                              !.url_entries = sel,
                                              !.out = BatchOf(shop, sel)])
                /\ hist' = [hist EXCEPT
                     !.fetched = @ \cup {Fetched(t, sel, nextId + 1)}]
  /\ UNCHANGED <<call, clock, dbVars, schedVars, env, stream, groupVars, worker>>

\* a provider call of an L2 job and what it handed back (history)
Called(t, provider, res) == [job |-> t.job, provider |-> provider, result |-> res]

\* a faulty variant of Bing: the urls listed under DELETE are submitted to
\* Bing like those listed under INDEX
BingSubmitsDeletes(t) ==
  /\ t.pc = "bing"
  /\ \E res \in Outcomes(t.data.index \cup t.data.delete) :
       /\ hist' = [hist EXCEPT !.calls = @ \cup {Called(t, "bing", res)}]
       /\ IF has_google(t.data)
            THEN /\ tasks' = Move(t, [t EXCEPT !.pc = "google",
                                               !.bing_result = res])
                 /\ UNCHANGED nextId
            ELSE /\ nextId < MaxJobs
                 /\ nextId' = nextId + 1
                 /\ tasks' = Move(t, [t EXCEPT
                      !.pc = "next_hset", !.bing_result = res,
                      !.out = Response(t, res, t.google_result),
                      !.next = nextId + 1])
  /\ UNCHANGED <<call, clock, dbVars, schedVars, env, stream, groupVars, worker>>

\* L2: await execute_bing_indexing(job) inside its own try/except; without a
\* Google credential the response and next_job_id follow
Bing(t) ==
  /\ t.pc = "bing"
  /\ \E res \in Outcomes(t.data.index) :
       /\ hist' = [hist EXCEPT !.calls = @ \cup {Called(t, "bing", res)}]
       /\ IF has_google(t.data)
            THEN /\ tasks' = Move(t, [t EXCEPT !.pc = "google",
                                               !.bing_result = res])
                 /\ UNCHANGED nextId
            ELSE /\ nextId < MaxJobs
                 /\ nextId' = nextId + 1
                 /\ tasks' = Move(t, [t EXCEPT
                      !.pc = "next_hset", !.bing_result = res,
                      !.out = Response(t, res, t.google_result),
                      !.next = nextId + 1])
  /\ UNCHANGED <<call, clock, dbVars, schedVars, env, stream, groupVars, worker>>

\* a faulty variant of Google: one try/except around both provider calls, so
\* that a Google call that raises leaves no result of either provider
GoogleFailureDropsBing(t) ==
  /\ t.pc = "google"
  /\ nextId < MaxJobs
  /\ nextId' = nextId + 1
  /\ \E res \in Outcomes(t.data.index \cup t.data.delete) :
       /\ hist' = [hist EXCEPT !.calls = @ \cup {Called(t, "google", res)}]
       /\ tasks' = Move(t, [t EXCEPT
            !.pc = "next_hset", !.google_result = res,
            !.bing_result = IF res = NotExecuted THEN NotExecuted ELSE @,
            !.out = Response(t, IF res = NotExecuted THEN NotExecuted
                                ELSE t.bing_result, res),
            !.next = nextId + 1])
  /\ UNCHANGED <<call, clock, dbVars, schedVars, env, stream, groupVars, worker>>

\* L2: await asyncio.to_thread(execute_google_indexing, job) inside its own
\* try/except, then the response and next_job_id
Google(t) ==
  /\ t.pc = "google"
  /\ nextId < MaxJobs
  /\ nextId' = nextId + 1
  /\ \E res \in Outcomes(t.data.index \cup t.data.delete) :
       /\ hist' = [hist EXCEPT !.calls = @ \cup {Called(t, "google", res)}]
       /\ tasks' = Move(t, [t EXCEPT
            !.pc = "next_hset", !.google_result = res,
            !.out = Response(t, t.bing_result, res),
            !.next = nextId + 1])
  /\ UNCHANGED <<call, clock, dbVars, schedVars, env, stream, groupVars, worker>>

\* L3: update_google_and_bing in the thread of asyncio.to_thread
DbBoth(t) ==
  /\ t.pc = "db_both"
  /\ rows' = update_google_and_bing(rows, t.data.shop, Split(t).both, clock)
  /\ tasks' = Move(t, [t EXCEPT !.pc = "db_google"])
  /\ UNCHANGED <<call, clock, auth, creds, schedVars, kvVars, groupVars, worker, hist>>

\* L3: update_google_only in the thread of asyncio.to_thread
DbGoogle(t) ==
  /\ t.pc = "db_google"
  /\ rows' = update_google_only(rows, t.data.shop, Split(t).google_only, clock)
  /\ tasks' = Move(t, [t EXCEPT !.pc = "db_bing"])
  /\ UNCHANGED <<call, clock, auth, creds, schedVars, kvVars, groupVars, worker, hist>>

\* L3: update_bing_only in the thread of asyncio.to_thread; the thread ends,
\* and a task that was not cancelled goes on
DbBing(t) ==
  /\ t.pc = "db_bing"
  /\ rows' = update_bing_only(rows, t.data.shop, Split(t).bing_only)
  /\ tasks' = IF t.cancelled THEN tasks \ {t}
              ELSE Move(t, [t EXCEPT !.pc = "done_hset"])
  /\ UNCHANGED <<call, clock, auth, creds, schedVars, kvVars, groupVars, worker, hist>>

\* a faulty variant of NextHset: the envelope of the next job is not written
\* before the entry is appended
NextHsetLeftOut(t) ==
  /\ t.pc = "next_hset"
  /\ tasks' = Move(t, [t EXCEPT !.pc = "next_expire"])
  /\ UNCHANGED <<call, clock, dbVars, schedVars, env, stream, nextId, groupVars, worker, hist>>

\* await r.hset(f"{NEXT_HASH_PATH}:{next_job_id}", {data, status, created_at})
NextHset(t) ==
  /\ t.pc = "next_hset"
  /\ env' = (t.next :> NewEnvelope(StageOf(t) + 1, t.data.shop, t.out, clock))
              @@ env
  /\ tasks' = Move(t, [t EXCEPT !.pc = "next_expire"])
  /\ UNCHANGED <<call, clock, dbVars, schedVars, stream, nextId, groupVars, worker, hist>>

\* await r.expire(f"{NEXT_HASH_PATH}:{next_job_id}", ...)
NextExpire(t) ==
  /\ t.pc = "next_expire"
  /\ env' = ExpireEnvelope(env, t.next)
  /\ tasks' = Move(t, [t EXCEPT !.pc = "next_xadd"])
  /\ UNCHANGED <<call, clock, dbVars, schedVars, stream, nextId, groupVars, worker, hist>>

\* await r.xadd(NEXT_STREAM_PREFIX, {"job_id": next_job_id, "shop": shop})
NextXadd(t) ==
  /\ t.pc = "next_xadd"
  /\ stream' = Xadd(stream, StageOf(t) + 1, t.next, t.data.shop)
  /\ tasks' = Move(t, [t EXCEPT !.pc = "done_hset"])
  /\ UNCHANGED <<call, clock, dbVars, schedVars, env, nextId, groupVars, worker, hist>>

\* await r.hset(f"{HASH_PATH}:{job_id}", {"status": "completed", ...}): at the
\* end of the job, and on the paths "No URLs to process" (L1) and "No valid
\* credentials" (L2), which acknowledge without an expire
CompletedHset(t) ==
  /\ t.pc \in {"done_hset", "nourls_hset", "nocreds_hset"}
  /\ env' = SetUrlsProcessed(
               SetMessage(SetStatus(env, t.job, StageOf(t), "completed"),
                          t.job, MessageOf(t.pc)),
               t.job, t, StageOf(t))
  /\ tasks' = Move(t, [t EXCEPT !.pc =
       IF t.pc = "done_hset" THEN "done_expire" ELSE "xack"])
  /\ UNCHANGED <<call, clock, dbVars, schedVars, stream, nextId, groupVars, worker, hist>>

\* await r.expire(f"{HASH_PATH}:{job_id}", ...) of the completed job
DoneExpire(t) ==
  /\ t.pc = "done_expire"
  /\ env' = ExpireEnvelope(env, t.job)
  /\ tasks' = Move(t, [t EXCEPT !.pc = "xack"])
  /\ UNCHANGED <<call, clock, dbVars, schedVars, stream, nextId, groupVars, worker, hist>>

\* except Exception: await r.hset(f"{HASH_PATH}:{job_id}", {"status": "failed"})
FailHset(t) ==
  /\ t.pc = "fail_hset"
  /\ env' = SetStatus(env, t.job, StageOf(t), "failed")
  /\ tasks' = Move(t, [t EXCEPT !.pc = "fail_expire"])
  /\ UNCHANGED <<call, clock, dbVars, schedVars, stream, nextId, groupVars, worker, hist>>

\* except Exception: await r.expire(f"{HASH_PATH}:{job_id}", ...)
FailExpire(t) ==
  /\ t.pc = "fail_expire"
  /\ env' = ExpireEnvelope(env, t.job)
  /\ tasks' = Move(t, [t EXCEPT !.pc = "fail_xack"])
  /\ UNCHANGED <<call, clock, dbVars, schedVars, stream, nextId, groupVars, worker, hist>>

AckPcs == {"ack_bad", "ack_noauth", "xack", "fail_xack"}

\* await r.xack(stream_name, GROUP, msg_id): after the status write, on the
\* paths without a shop or without an Auth row, and at the end of the handler
TaskXack(t) ==
  /\ t.pc \in AckPcs
  /\ pending' = Xack(pending, StageOf(t), t.msg)
  /\ tasks' = Move(t, [t EXCEPT !.pc = "return"])
  /\ UNCHANGED <<call, clock, dbVars, schedVars, kvVars, cursor, worker, hist>>

\* process_job returns: JOB_LIMIT is released, and the done callback takes the
\* task out of active_tasks
Finish(t) ==
  /\ t.pc = "return"
  /\ tasks' = tasks \ {t}
  /\ hist' = [hist EXCEPT !.returned = @ \cup {<<StageOf(t), t.msg>>}]
  /\ UNCHANGED <<call, clock, dbVars, schedVars, kvVars, groupVars, worker>>

\* the awaited call raises an Exception: in the body of the try it enters the
\* handler, inside the handler's own try it is swallowed, and raised by the
\* handler's xack it ends the task
Fault(t) ==
  /\ hist.events < MaxEvents
  /\ ~t.cancelled
  /\ t.pc \notin {"acquire", "return", "bing", "google"}
  /\ tasks' = IF t.pc = "fail_xack" THEN tasks \ {t}
              ELSE Move(t, [t EXCEPT !.pc =
                     IF t.pc \in {"fail_hset", "fail_expire"} THEN "fail_xack"
                     ELSE "fail_hset"])
  /\ hist' = [hist EXCEPT !.events = @ + 1]
  /\ UNCHANGED <<call, clock, dbVars, schedVars, kvVars, groupVars, worker>>

TaskStep(t) ==
  \/ Start(t)
  \/ Fetch(t)
  \/ Bing(t)
  \/ Google(t)
  \/ DbBoth(t)
  \/ DbGoogle(t)
  \/ DbBing(t)
  \/ NextHset(t)
  \/ NextExpire(t)
  \/ NextXadd(t)
  \/ CompletedHset(t)
  \/ DoneExpire(t)
  \/ FailHset(t)
  \/ FailExpire(t)
  \/ TaskXack(t)
  \/ Finish(t)

(***************************************************************************)
(* The environment of the pipeline.                                        *)
(***************************************************************************)
ForeignKinds == {"no_job_id", "bad_json", "no_shop"}

\* another producer appends an entry to a stream: one without job_id, one
\* whose envelope holds data that is not JSON, one whose job has no shop
Foreign(st, kind) ==
  /\ hist.events < MaxEvents
  /\ hist' = [hist EXCEPT !.events = @ + 1]
  /\ IF kind = "no_job_id"
       THEN /\ stream' = Xadd(stream, st, 0, "a.com")
            /\ UNCHANGED <<env, nextId>>
       ELSE /\ nextId < MaxJobs
            /\ nextId' = nextId + 1
            /\ env' = (nextId + 1 :>
                         NewEnvelope(st, "a.com", [kind |-> kind], clock)) @@ env
            /\ stream' = Xadd(stream, st, nextId + 1, "a.com")
  /\ UNCHANGED <<call, clock, dbVars, schedVars, groupVars, workVars>>

\* the TTL of an envelope runs out: the key is gone
ExpireKey(id) ==
  /\ id \in DOMAIN env
  /\ env[id].ttl
  /\ hist.events < MaxEvents
  /\ hist' = [hist EXCEPT !.events = @ + 1]
  /\ env' = [k \in DOMAIN env \ {id} |-> env[k]]
  /\ UNCHANGED <<call, clock, dbVars, schedVars, stream, nextId, groupVars, workVars>>

\* the Auth row of a shop is deleted
AuthRemoved(shop) ==
  /\ shop \in auth
  /\ hist.events < MaxEvents
  /\ hist' = [hist EXCEPT !.events = @ + 1]
  /\ auth' = auth \ {shop}
  /\ UNCHANGED <<call, clock, creds, rows, schedVars, kvVars, groupVars, workVars>>

(***************************************************************************)
(* Initial states.                                                         *)
(***************************************************************************)
NoHist == [handed |-> {}, dropped |-> {}, returned |-> {}, cancelled |-> {},
           lost |-> {}, noauth |-> {}, nourls |-> {}, fetched |-> {},
           calls |-> {},
           raised |-> 0, faults |-> {},
           cycles |-> 0, last |-> [shops |-> 0, jobs |-> 0],
           events |-> 0]

InitRows == [k \in Shops \X Urls |->
  [indexAction |-> "INDEX", status |-> "PENDING", attempts |-> 0,
   isGoogleIndexed |-> FALSE, isBingIndexed |-> FALSE, lastIndexedAt |-> NoTime]]

InitCommon ==
  /\ clock = 0
  /\ cursor = [st \in Stages |-> 0]
  /\ pending = [st \in Stages |-> <<>>]
  /\ tasks = {}
  /\ hist = NoHist
  /\ call = NoCall
  /\ last_run = [s \in Shops |-> NoTime]
  /\ daily_runs = [s \in Shops |-> [d \in Days |-> 0]]
  /\ daily_exp = NoTime
  /\ stats = NoStats
  /\ env = <<>>
  /\ stream = [st \in Stages |-> <<>>]
  /\ nextId = 0

\* one scheduler process
InitSched1 ==
  /\ InitCommon
  /\ auth = Shops
  /\ creds = [s \in Shops |-> AuthRow(TRUE, TRUE)]
  /\ rows = InitRows
  /\ worker = <<>>
  /\ sched = [i \in {1} |-> IdleSched]

\* two scheduler processes on the same kv-store
InitSched2 ==
  /\ InitCommon
  /\ auth = {"a.com"}
  /\ creds = [s \in Shops |-> AuthRow(TRUE, TRUE)]
  /\ rows = InitRows
  /\ worker = <<>>
  /\ sched = [i \in {1, 2} |-> IdleSched]

NextSched == Tick \/ \E i \in DOMAIN sched : SchedulerStep(i)

SpecSched1 == InitSched1 /\ [][NextSched]_vars
SpecSched2 == InitSched2 /\ [][NextSched]_vars

\* one scheduler process on a relational store that holds no Auth row, or the
\* row of one shop
InitCycle ==
  /\ InitCommon
  /\ auth \in {{}, {"a.com"}}
  /\ creds = [s \in Shops |-> AuthRow(TRUE, TRUE)]
  /\ rows = InitRows
  /\ worker = <<>>
  /\ sched = [i \in {1} |-> IdleSched]

NextCycle ==
  \/ Tick
  \/ \E i \in DOMAIN sched : SchedulerStep(i)
  \/ \E i \in DOMAIN sched : CycleEmpty(i)

SpecCycle == InitCycle /\ [][NextCycle]_vars

\* the instants a scheduler process starts at, two days and more after the
\* first runs
CleanClocks == {MaxClock, MaxClock + 11, MaxClock + 23, MaxClock + 35}

\* the last day of Days before instant t on which a shop ran, NoTime if none
LastDay(runs, t) ==
  IF \A d \in Days : runs[d] = 0 THEN NoTime
  ELSE CHOOSE d \in Days : runs[d] > 0 /\ \A e \in Days : runs[e] > 0 => e <= d

\* One scheduler process is started on a kv-store that earlier runs have
\* written: every shop ran at noon on any of the days before today, which
\* set last_run, counted the run under shop:date in daily_runs and set the
\* expiry of daily_runs to 48 h later.  The Auth table holds any rows.
InitClean ==
  /\ clock \in CleanClocks
  /\ cursor = [st \in Stages |-> 0]
  /\ pending = [st \in Stages |-> <<>>]
  /\ tasks = {}
  /\ hist = NoHist
  /\ call = NoCall
  /\ daily_runs \in [Shops -> [Days -> {0, 1}]]
  /\ \A sh \in Shops : \A d \in Days : d >= DayOf(clock) => daily_runs[sh][d] = 0
  /\ last_run = [sh \in Shops |->
       IF LastDay(daily_runs[sh], clock) = NoTime THEN NoTime
       ELSE LastDay(daily_runs[sh], clock) * 24 + 12]
  /\ daily_exp =
       IF \A sh \in Shops : last_run[sh] = NoTime THEN NoTime
       ELSE 48 + CHOOSE t \in {last_run[sh] : sh \in Shops} :
                   \A sh \in Shops : last_run[sh] <= t
  /\ stats = NoStats
  /\ env = <<>>
  /\ stream = [st \in Stages |-> <<>>]
  /\ nextId = 0
  /\ auth \in SUBSET Shops
  /\ creds = [s \in Shops |-> AuthRow(TRUE, TRUE)]
  /\ rows = InitRows
  /\ worker = <<>>
  /\ sched = [i \in {1} |-> IdleSched]

NextClean ==
  \/ \E i \in DOMAIN sched : SchedulerStep(i)
  \/ \E i \in DOMAIN sched : CycleEmpty(i)

SpecClean == InitClean /\ [][NextClean]_vars

\* the state earlier runs of a shop have left in scheduler:last_run and
\* scheduler:daily_runs: none, a run at hour 0, or two runs on day 0
EarlierRuns ==
  {[last_run |-> NoTime, count |-> 0], [last_run |-> 0, count |-> 1],
   [last_run |-> 0, count |-> MAX_RUNS_PER_DAY]}

\* One scheduler process runs one more cycle, 11 or 12 hours after the
\* earlier runs of the two shops, on a kv-store whose commands may raise.
InitFaults ==
  /\ clock \in {MIN_HOURS_BETWEEN_RUNS - 1, MIN_HOURS_BETWEEN_RUNS}
  /\ cursor = [st \in Stages |-> 0]
  /\ pending = [st \in Stages |-> <<>>]
  /\ tasks = {}
  /\ hist = [NoHist EXCEPT !.cycles = MaxCycles - 1]
  /\ call = NoCall
  /\ \E e \in [Shops -> EarlierRuns] :
       /\ last_run = [sh \in Shops |-> e[sh].last_run]
       /\ daily_runs = [sh \in Shops |-> [d \in Days |->
            IF d = 0 THEN e[sh].count ELSE 0]]
       /\ daily_exp = IF \A sh \in Shops : e[sh].count = 0 THEN NoTime ELSE 48
  /\ stats = NoStats
  /\ env = <<>>
  /\ stream = [st \in Stages |-> <<>>]
  /\ nextId = 0
  /\ auth = Shops
  /\ creds = [s \in Shops |-> AuthRow(TRUE, TRUE)]
  /\ rows = InitRows
  /\ worker = <<>>
  /\ sched = [i \in {1} |-> IdleSched]

NextFaults ==
  \/ \E i \in DOMAIN sched : SchedulerStep(i)
  \/ \E i \in DOMAIN sched : StateReadFails(i)
  \/ \E i \in DOMAIN sched : StateWriteFails(i)
  \/ \E i \in DOMAIN sched : ScheduleJobFails(i)

SpecFaults == InitFaults /\ [][NextFaults]_vars

\* a scheduler process in continuous mode, and a process started in manual
\* mode for one shop, on the same kv-store
InitManual ==
  /\ InitCommon
  /\ auth = {"a.com"}
  /\ creds = [s \in Shops |-> AuthRow(TRUE, TRUE)]
  /\ rows = InitRows
  /\ worker = <<>>
  /\ \E shop \in Shops :
       sched = [i \in {1, 2} |-> IF i = 1 THEN IdleSched ELSE ManualProcess(shop)]

NextManual ==
  \/ Tick
  \/ \E i \in DOMAIN sched : SchedulerStep(i)
  \/ \E i \in DOMAIN sched : ManualTrigger(i)

SpecManual == InitManual /\ [][NextManual]_vars

\* streak is history: the iterations of main_loop in a row that ended in an
\* exception
NewWorker(st) == [stage |-> st, epoch |-> 0, pc |-> "read", msg |-> 0,
                  shutdown |-> FALSE, consecutive_errors |-> 0, streak |-> 0]

\* The pipeline after the first scheduling cycle: the seed job of shop a.com
\* is queued, one worker process per stage is running, and the shop has one
\* pending url.
InitPipe ==
  /\ clock = 0
  /\ auth = {"a.com"}
  /\ creds \in [Shops -> {AuthRow(TRUE, TRUE), AuthRow(FALSE, FALSE)}]
  /\ creds["b.com"] = AuthRow(TRUE, TRUE)
  /\ rows = [k \in Shops \X Urls |->
       IF k = <<"a.com", "u1">> THEN InitRows[k]
       ELSE [InitRows[k] EXCEPT !.status = "COMPLETED", !.isGoogleIndexed = TRUE,
                                !.isBingIndexed = TRUE, !.lastIndexedAt = 0]]
  /\ last_run = [s \in Shops |-> IF s = "a.com" THEN 0 ELSE NoTime]
  /\ daily_runs = [s \in Shops |-> [d \in Days |->
       IF s = "a.com" /\ d = 0 THEN 1 ELSE 0]]
  /\ daily_exp = 48
  /\ stats = [last_run_at |-> 0, last_scheduled_count |-> 1,
              last_skipped_count |-> 0, total_shops_evaluated |-> 1,
              total_runs |-> 1]
  /\ sched = <<>>
  /\ env = (1 :> [NewEnvelope(1, "a.com", [kind |-> "seed", shop |-> "a.com"], 0)
                    EXCEPT !.ttl = TRUE])
  /\ stream = Xadd([st \in Stages |-> <<>>], 1, 1, "a.com")
  /\ nextId = 1
  /\ cursor = [st \in Stages |-> 0]
  /\ pending = [st \in Stages |-> <<>>]
  /\ worker = [w \in 1..3 |-> NewWorker(w)]
  /\ tasks = {}
  /\ hist = NoHist
  /\ call = NoCall

NextPipe ==
  \/ \E w \in DOMAIN worker : ReaderStep(w)
  \/ \E w \in DOMAIN worker : Signal(w)
  \/ \E w \in DOMAIN worker : ShutdownCancel(w)
  \/ \E w \in DOMAIN worker : Crash(w)
  \/ \E w \in DOMAIN worker : \E m \in DOMAIN pending[worker[w].stage] :
       Recovery(w, m)
  \/ \E t \in tasks : TaskStep(t)
  \/ \E t \in tasks : Fault(t)
  \/ \E st \in Stages : \E kind \in ForeignKinds : Foreign(st, kind)
  \/ \E id \in DOMAIN env : ExpireKey(id)
  \/ \E shop \in Shops : AuthRemoved(shop)

SpecPipe == InitPipe /\ [][NextPipe]_vars

\* Result saving alone: two L3 worker processes, two result envelopes of shop
\* a.com queued, and url rows whose flags other jobs have already set.
ResultData(g, b) ==
  [kind |-> "result", shop |-> "a.com",
   google |-> [executed |-> TRUE, success |-> TRUE, urls |-> g],
   bing |-> [executed |-> TRUE, success |-> TRUE, urls |-> b]]

InitL3 ==
  /\ clock = 0
  /\ auth = {"a.com"}
  /\ creds = [s \in Shops |-> AuthRow(TRUE, TRUE)]
  /\ \E f \in [Urls -> [g : BOOLEAN, b : BOOLEAN]] :
       rows = [k \in Shops \X Urls |->
         IF k[1] = "a.com"
           THEN [InitRows[k] EXCEPT !.isGoogleIndexed = f[k[2]].g,
                                    !.isBingIndexed = f[k[2]].b]
           ELSE InitRows[k]]
  /\ last_run = [s \in Shops |-> NoTime]
  /\ daily_runs = [s \in Shops |-> [d \in Days |-> 0]]
  /\ daily_exp = NoTime
  /\ stats = NoStats
  /\ sched = <<>>
  /\ \E g1 \in SUBSET Urls, b1 \in SUBSET Urls,
        g2 \in SUBSET {"u1"}, b2 \in SUBSET {"u1"} :
       env = (1 :> [NewEnvelope(3, "a.com", ResultData(g1, b1), 0)
                      EXCEPT !.ttl = TRUE])
          @@ (2 :> [NewEnvelope(3, "a.com", ResultData(g2, b2), 0)
                      EXCEPT !.ttl = TRUE])
  /\ stream = Xadd(Xadd([st \in Stages |-> <<>>], 3, 1, "a.com"), 3, 2, "a.com")
  /\ nextId = 2
  /\ cursor = [st \in Stages |-> 0]
  /\ pending = [st \in Stages |-> <<>>]
  /\ worker = [w \in {3, 4} |-> NewWorker(3)]
  /\ tasks = {}
  /\ hist = NoHist
  /\ call = NoCall

NextL3 ==
  \/ Tick
  \/ \E w \in DOMAIN worker : Deliver(w)
  \/ \E w \in DOMAIN worker : Handle(w)
  \/ \E w \in DOMAIN worker : HGet(w)
  \/ \E t \in tasks : Start(t)
  \/ \E t \in tasks : DbBoth(t)
  \/ \E t \in tasks : DbGoogle(t)
  \/ \E t \in tasks : DbBing(t)
  \/ \E t \in tasks : CompletedHset(t)
  \/ \E t \in tasks : DoneExpire(t)
  \/ \E t \in tasks : TaskXack(t)
  \/ \E t \in tasks : Finish(t)

SpecL3 == InitL3 /\ [][NextL3]_vars

\* Recovery: an L2 and an L3 worker process with their recovery loops, one
\* batch job of shop a.com queued for L2, and a process that may be killed.
InitRecovery ==
  /\ clock = 0
  /\ auth = {"a.com"}
  /\ creds = [s \in Shops |-> AuthRow(FALSE, TRUE)]
  /\ rows = InitRows
  /\ last_run = [s \in Shops |-> NoTime]
  /\ daily_runs = [s \in Shops |-> [d \in Days |-> 0]]
  /\ daily_exp = NoTime
  /\ stats = NoStats
  /\ sched = <<>>
  /\ env = (1 :> [NewEnvelope(2, "a.com",
                    [kind |-> "batch", shop |-> "a.com", googleConfig |-> NoKey,
                     bingApiKey |-> MaxKeyLen, index |-> {"u1"},
                     delete |-> {}], 0)
                    EXCEPT !.ttl = TRUE])
  /\ stream = Xadd([st \in Stages |-> <<>>], 2, 1, "a.com")
  /\ nextId = 1
  /\ cursor = [st \in Stages |-> 0]
  /\ pending = [st \in Stages |-> <<>>]
  /\ worker = [w \in {2, 3} |-> NewWorker(w)]
  /\ tasks = {}
  /\ hist = NoHist
  /\ call = NoCall

RecoveryReader == \E w \in DOMAIN worker : Deliver(w) \/ Handle(w) \/ HGet(w)

RecoveryTask ==
  \E t \in tasks :
    \/ Start(t)
    \/ Bing(t)
    \/ DbBoth(t)
    \/ DbGoogle(t)
    \/ DbBing(t)
    \/ NextHset(t)
    \/ NextExpire(t)
    \/ NextXadd(t)
    \/ CompletedHset(t)
    \/ DoneExpire(t)
    \/ TaskXack(t)
    \/ Finish(t)

RecoveryClaim ==
  \E w \in DOMAIN worker : \E m \in DOMAIN pending[worker[w].stage] :
    Recovery(w, m)

NextRecovery ==
  \/ RecoveryReader
  \/ RecoveryTask
  \/ RecoveryClaim
  \/ \E w \in DOMAIN worker : Crash(w)

\* the event loop runs every task that is ready, and the recovery loop wakes
\* up every 60 s
SpecRecovery ==
  /\ InitRecovery
  /\ [][NextRecovery]_vars
  /\ WF_vars(RecoveryReader)
  /\ WF_vars(RecoveryTask)
  /\ WF_vars(RecoveryClaim)

\* One worker process with more entries queued than its JOB_LIMIT admits: L1
\* with seed jobs of a.com, whose urls are all indexed, and of b.com, which
\* has a pending url; L2 with jobs of a shop without credentials; L3 with
\* results for the pending url.
QueuedData(st, shop) ==
  CASE st = 1 -> [kind |-> "seed", shop |-> shop]
    [] st = 2 -> [kind |-> "batch", shop |-> shop, googleConfig |-> NoKey,
                  bingApiKey |-> NoKey, index |-> {"u1"}, delete |-> {}]
    [] OTHER -> [kind |-> "result", shop |-> shop,
                 google |-> [executed |-> TRUE, success |-> TRUE, urls |-> {"u1"}],
                 bing |-> [executed |-> TRUE, success |-> TRUE, urls |-> {"u1"}]]

QueuedShop(st, j) == IF st = 1 /\ j % 2 = 1 THEN "a.com" ELSE "b.com"

InitLimit ==
  /\ clock = 0
  /\ auth = Shops
  /\ rows = [k \in Shops \X Urls |->
       IF k = <<"b.com", "u1">> THEN InitRows[k]
       ELSE [InitRows[k] EXCEPT !.status = "COMPLETED", !.isGoogleIndexed = TRUE,
                                !.isBingIndexed = TRUE, !.lastIndexedAt = 0]]
  /\ last_run = [s \in Shops |-> 0]
  /\ daily_runs = [s \in Shops |-> [d \in Days |-> IF d = 0 THEN 1 ELSE 0]]
  /\ daily_exp = 48
  /\ stats = [last_run_at |-> 0, last_scheduled_count |-> 2,
              last_skipped_count |-> 0, total_shops_evaluated |-> 2,
              total_runs |-> 1]
  /\ sched = <<>>
  /\ \E st \in Stages :
       LET n == StageLimit(st) + MaxWaiting IN
       /\ creds = [s \in Shops |-> AuthRow(st = 3, st = 3)]
       /\ env = [j \in 1..n |->
            [NewEnvelope(st, QueuedShop(st, j), QueuedData(st, QueuedShop(st, j)), 0)
               EXCEPT !.ttl = TRUE]]
       /\ stream = [s \in Stages |->
            IF s = st THEN [j \in 1..n |-> [job_id |-> j, shop |-> QueuedShop(st, j)]]
            ELSE <<>>]
       /\ nextId = n
       /\ worker = (st :> NewWorker(st))
  /\ cursor = [st \in Stages |-> 0]
  /\ pending = [st \in Stages |-> <<>>]
  /\ tasks = {}
  /\ hist = NoHist
  /\ call = NoCall

NextLimit ==
  \/ \E w \in DOMAIN worker : Deliver(w)
  \/ \E w \in DOMAIN worker : Handle(w)
  \/ \E w \in DOMAIN worker : HGet(w)
  \/ \E t \in tasks : Start(t)
  \/ \E t \in tasks : Fetch(t)
  \/ \E t \in tasks : NextHset(t)
  \/ \E t \in tasks : NextExpire(t)
  \/ \E t \in tasks : NextXadd(t)
  \/ \E t \in tasks : DbBoth(t)
  \/ \E t \in tasks : DbGoogle(t)
  \/ \E t \in tasks : DbBing(t)
  \/ \E t \in tasks : CompletedHset(t)
  \/ \E t \in tasks : DoneExpire(t)
  \/ \E t \in tasks : TaskXack(t)
  \/ \E t \in tasks : Finish(t)

SpecLimit == InitLimit /\ [][NextLimit]_vars

\* The whole pipeline from its start: one scheduler process and one worker
\* process per stage on an empty kv-store, the Auth row of shop a.com, and no
\* fault.
InitHops ==
  /\ InitCommon
  /\ auth = {"a.com"}
  /\ creds = [s \in Shops |-> AuthRow(TRUE, TRUE)]
  /\ rows = InitRows
  /\ worker = [w \in 1..3 |-> NewWorker(w)]
  /\ sched = [i \in {1} |-> IdleSched]

NextHops ==
  \/ \E i \in DOMAIN sched : SchedulerStep(i)
  \/ \E w \in DOMAIN worker : Deliver(w)
  \/ \E w \in DOMAIN worker : Handle(w)
  \/ \E w \in DOMAIN worker : HGet(w)
  \/ \E t \in tasks : Start(t)
  \/ \E t \in tasks : Fetch(t)
  \/ \E t \in tasks : Bing(t)
  \/ \E t \in tasks : Google(t)
  \/ \E t \in tasks : DbBoth(t)
  \/ \E t \in tasks : DbGoogle(t)
  \/ \E t \in tasks : DbBing(t)
  \/ \E t \in tasks : NextHset(t)
  \/ \E t \in tasks : NextExpire(t)
  \/ \E t \in tasks : NextXadd(t)
  \/ \E t \in tasks : CompletedHset(t)
  \/ \E t \in tasks : DoneExpire(t)
  \/ \E t \in tasks : TaskXack(t)
  \/ \E t \in tasks : Finish(t)

SpecHops == InitHops /\ [][NextHops]_vars

\* the flags earlier jobs of a shop can have left on a row that is PENDING:
\* a provider's flag is set only if the shop holds its credential, and Bing
\* was never given a url listed for DELETE
EarlierFlags(action, g, b) ==
  {f \in [google : BOOLEAN, bing : BOOLEAN] :
     /\ f.google => g
     /\ f.bing => (b /\ action = "INDEX")
     /\ ~(f.google /\ f.bing)}

\* The three workers after a later scheduling cycle: a seed job of shop a.com
\* is queued; the shop holds credentials for both providers or for one, its
\* second url is listed for INDEX or for DELETE, and earlier jobs have left
\* their flags on the two rows.
InitLaterJob ==
  /\ clock = MIN_HOURS_BETWEEN_RUNS
  /\ auth = {"a.com"}
  /\ \E g \in BOOLEAN, b \in BOOLEAN :
       /\ g \/ b
       /\ creds = [s \in Shops |->
            IF s = "a.com" THEN AuthRow(g, b) ELSE AuthRow(TRUE, TRUE)]
       /\ \E a2 \in {"INDEX", "DELETE"} :
          \E f1 \in EarlierFlags("INDEX", g, b), f2 \in EarlierFlags(a2, g, b) :
            rows = [k \in Shops \X Urls |->
              IF k[1] # "a.com" THEN InitRows[k]
              ELSE LET f == IF k[2] = "u1" THEN f1 ELSE f2 IN
                   [InitRows[k] EXCEPT
                      !.indexAction = IF k[2] = "u1" THEN "INDEX" ELSE a2,
                      !.isGoogleIndexed = f.google,
                      !.isBingIndexed = f.bing,
                      !.lastIndexedAt = IF f.google THEN 0 ELSE NoTime]]
  /\ last_run = [s \in Shops |-> IF s = "a.com" THEN MIN_HOURS_BETWEEN_RUNS ELSE NoTime]
  /\ daily_runs = [s \in Shops |-> [d \in Days |->
       IF s = "a.com" /\ d = 0 THEN MAX_RUNS_PER_DAY ELSE 0]]
  /\ daily_exp = MIN_HOURS_BETWEEN_RUNS + 48
  /\ stats = [last_run_at |-> MIN_HOURS_BETWEEN_RUNS, last_scheduled_count |-> 1,
              last_skipped_count |-> 0, total_shops_evaluated |-> 1,
              total_runs |-> 2]
  /\ sched = <<>>
  /\ env = (1 :> [NewEnvelope(1, "a.com", [kind |-> "seed", shop |-> "a.com"],
                              MIN_HOURS_BETWEEN_RUNS) EXCEPT !.ttl = TRUE])
  /\ stream = Xadd([st \in Stages |-> <<>>], 1, 1, "a.com")
  /\ nextId = 1
  /\ cursor = [st \in Stages |-> 0]
  /\ pending = [st \in Stages |-> <<>>]
  /\ worker = [w \in 1..3 |-> NewWorker(w)]
  /\ tasks = {}
  /\ hist = NoHist
  /\ call = NoCall

NextLaterJob ==
  \/ \E w \in DOMAIN worker : Deliver(w)
  \/ \E w \in DOMAIN worker : Handle(w)
  \/ \E w \in DOMAIN worker : HGet(w)
  \/ \E t \in tasks : Start(t)
  \/ \E t \in tasks : Fetch(t)
  \/ \E t \in tasks : Bing(t)
  \/ \E t \in tasks : Google(t)
  \/ \E t \in tasks : DbBoth(t)
  \/ \E t \in tasks : DbGoogle(t)
  \/ \E t \in tasks : DbBing(t)
  \/ \E t \in tasks : NextHset(t)
  \/ \E t \in tasks : NextExpire(t)
  \/ \E t \in tasks : NextXadd(t)
  \/ \E t \in tasks : CompletedHset(t)
  \/ \E t \in tasks : DoneExpire(t)
  \/ \E t \in tasks : TaskXack(t)
  \/ \E t \in tasks : Finish(t)

SpecLaterJob == InitLaterJob /\ [][NextLaterJob]_vars

\* The same worker process when SIGTERM or SIGINT arrives: the read loop, the
\* tasks, and graceful_shutdown in the `finally` of main.
StopReader ==
  \/ \E w \in DOMAIN worker : Deliver(w)
  \/ \E w \in DOMAIN worker : Handle(w)
  \/ \E w \in DOMAIN worker : HGet(w)
  \/ \E w \in DOMAIN worker : Exit(w)

StopShutdown ==
  \/ \E w \in DOMAIN worker : ShutdownCancel(w)
  \/ \E w \in DOMAIN worker : Close(w)

NextStop ==
  \/ \E w \in DOMAIN worker : Signal(w)
  \/ StopReader
  \/ StopShutdown
  \/ \E t \in tasks : Start(t)
  \/ \E t \in tasks : Fetch(t)
  \/ \E t \in tasks : NextHset(t)
  \/ \E t \in tasks : NextExpire(t)
  \/ \E t \in tasks : NextXadd(t)
  \/ \E t \in tasks : DbBoth(t)
  \/ \E t \in tasks : DbGoogle(t)
  \/ \E t \in tasks : DbBing(t)
  \/ \E t \in tasks : CompletedHset(t)
  \/ \E t \in tasks : DoneExpire(t)
  \/ \E t \in tasks : TaskXack(t)
  \/ \E t \in tasks : Finish(t)

\* the event loop runs main_loop whenever it is ready: xreadgroup returns
\* after block=2000 at the latest, and r.hget returns
SpecStop ==
  /\ InitLimit
  /\ [][NextStop]_vars
  /\ WF_vars(StopReader)

\* A worker process that is started again after SIGTERM or SIGINT has made
\* it shut down.
NextRestart ==
  \/ NextStop
  \/ \E w \in DOMAIN worker : Restart(w)

SpecRestart == InitLimit /\ [][NextRestart]_vars

\* the values of bingLimit the Auth rows hold, and those of googleLimit
BingLimits == 0..MaxLimit
GoogleLimits == {0, MaxLimit, DefaultLimit}

\* the states the second url row of a shop is in: pending with any action and
\* any number of attempts, pending and known to Google (after
\* update_google_only), or completed (after update_google_and_bing)
SecondRows ==
  {[indexAction |-> a, status |-> "PENDING", attempts |-> n,
    isGoogleIndexed |-> FALSE, isBingIndexed |-> FALSE, lastIndexedAt |-> NoTime] :
     a \in {"INDEX", "DELETE", "IGNORE"}, n \in {0, 1}} \cup
  {[indexAction |-> "INDEX", status |-> "PENDING", attempts |-> 1,
    isGoogleIndexed |-> TRUE, isBingIndexed |-> FALSE, lastIndexedAt |-> 0],
   [indexAction |-> "INDEX", status |-> "COMPLETED", attempts |-> 1,
    isGoogleIndexed |-> TRUE, isBingIndexed |-> TRUE, lastIndexedAt |-> 0]}

\* One L1 worker process with two seed jobs of shop a.com queued.  The
\* settings of the shop's Auth row hold any limits, the first url row of the
\* shop is pending with action INDEX or DELETE, and the second one is in any
\* state of SecondRows.
InitL1 ==
  /\ clock = 0
  /\ auth = Shops
  /\ \E b \in BingLimits, g \in GoogleLimits :
       creds = [s \in Shops |->
         IF s = "a.com"
           THEN [AuthRow(TRUE, TRUE) EXCEPT !.bingLimit = b, !.googleLimit = g]
           ELSE AuthRow(TRUE, TRUE)]
  /\ \E a1 \in {"INDEX", "DELETE"}, r2 \in SecondRows :
       rows = [k \in Shops \X Urls |->
         IF k = <<"a.com", "u1">> THEN [InitRows[k] EXCEPT !.indexAction = a1]
         ELSE IF k = <<"a.com", "u2">> THEN r2
         ELSE InitRows[k]]
  /\ last_run = [s \in Shops |-> 0]
  /\ daily_runs = [s \in Shops |-> [d \in Days |-> IF d = 0 THEN 2 ELSE 0]]
  /\ daily_exp = 48
  /\ stats = [last_run_at |-> 0, last_scheduled_count |-> 1,
              last_skipped_count |-> 1, total_shops_evaluated |-> 2,
              total_runs |-> 2]
  /\ sched = <<>>
  /\ env = [j \in 1..2 |->
       [NewEnvelope(1, "a.com", [kind |-> "seed", shop |-> "a.com"], 0)
          EXCEPT !.ttl = TRUE]]
  /\ stream = [s \in Stages |->
       IF s = 1 THEN [j \in 1..2 |-> [job_id |-> j, shop |-> "a.com"]]
       ELSE <<>>]
  /\ nextId = 2
  /\ worker = (1 :> NewWorker(1))
  /\ cursor = [st \in Stages |-> 0]
  /\ pending = [st \in Stages |-> <<>>]
  /\ tasks = {}
  /\ hist = NoHist
  /\ call = NoCall

NextL1 ==
  \/ \E w \in DOMAIN worker : Deliver(w)
  \/ \E w \in DOMAIN worker : Handle(w)
  \/ \E w \in DOMAIN worker : HGet(w)
  \/ \E t \in tasks : Start(t)
  \/ \E t \in tasks : Fetch(t)
  \/ \E t \in tasks : NextHset(t)
  \/ \E t \in tasks : NextExpire(t)
  \/ \E t \in tasks : NextXadd(t)
  \/ \E t \in tasks : CompletedHset(t)
  \/ \E t \in tasks : DoneExpire(t)
  \/ \E t \in tasks : TaskXack(t)
  \/ \E t \in tasks : Finish(t)

SpecL1 == InitL1 /\ [][NextL1]_vars

\* One L2 worker process with a batch job of shop a.com queued, whose auth
\* holds any credential or none for each provider, and which lists one url
\* under INDEX and one under DELETE.
InitL2 ==
  /\ clock = 0
  /\ auth = Shops
  /\ \E g \in Keys, b \in Keys :
       /\ creds = [s \in Shops |->
            IF s = "a.com"
              THEN [AuthRow(TRUE, TRUE) EXCEPT !.googleConfig = g,
                                               !.bingApiKey = b]
              ELSE AuthRow(TRUE, TRUE)]
       /\ env = (1 :> [NewEnvelope(2, "a.com",
                         [kind |-> "batch", shop |-> "a.com",
                          googleConfig |-> g, bingApiKey |-> b,
                          index |-> {"u1"}, delete |-> {"u2"}], 0)
                         EXCEPT !.ttl = TRUE])
  /\ rows = [k \in Shops \X Urls |->
       IF k = <<"a.com", "u2">> THEN [InitRows[k] EXCEPT !.indexAction = "DELETE"]
       ELSE InitRows[k]]
  /\ last_run = [s \in Shops |-> 0]
  /\ daily_runs = [s \in Shops |-> [d \in Days |-> IF d = 0 THEN 1 ELSE 0]]
  /\ daily_exp = 48
  /\ stats = [last_run_at |-> 0, last_scheduled_count |-> 2,
              last_skipped_count |-> 0, total_shops_evaluated |-> 2,
              total_runs |-> 1]
  /\ sched = <<>>
  /\ stream = Xadd([st \in Stages |-> <<>>], 2, 1, "a.com")
  /\ nextId = 1
  /\ worker = (2 :> NewWorker(2))
  /\ cursor = [st \in Stages |-> 0]
  /\ pending = [st \in Stages |-> <<>>]
  /\ tasks = {}
  /\ hist = NoHist
  /\ call = NoCall

NextL2 ==
  \/ \E w \in DOMAIN worker : Deliver(w)
  \/ \E w \in DOMAIN worker : Handle(w)
  \/ \E w \in DOMAIN worker : HGet(w)
  \/ \E t \in tasks : Start(t)
  \/ \E t \in tasks : Bing(t)
  \/ \E t \in tasks : Google(t)
  \/ \E t \in tasks : NextHset(t)
  \/ \E t \in tasks : NextExpire(t)
  \/ \E t \in tasks : NextXadd(t)
  \/ \E t \in tasks : CompletedHset(t)
  \/ \E t \in tasks : DoneExpire(t)
  \/ \E t \in tasks : TaskXack(t)
  \/ \E t \in tasks : Finish(t)

SpecL2 == InitL2 /\ [][NextL2]_vars

\* One worker process whose commands raise: the stream holds MaxErrors entries
\* of jobs whose envelopes have expired.
InitBreaker ==
  /\ clock = 0
  /\ auth = Shops
  /\ creds = [s \in Shops |-> AuthRow(TRUE, TRUE)]
  /\ rows = InitRows
  /\ last_run = [s \in Shops |-> NoTime]
  /\ daily_runs = [s \in Shops |-> [d \in Days |-> 0]]
  /\ daily_exp = NoTime
  /\ stats = NoStats
  /\ sched = <<>>
  /\ env = <<>>
  /\ \E st \in Stages :
       /\ stream = [s \in Stages |->
            IF s = st THEN [j \in 1..MaxErrors |-> [job_id |-> j, shop |-> "a.com"]]
            ELSE <<>>]
       /\ worker = (st :> NewWorker(st))
  /\ nextId = MaxErrors
  /\ cursor = [st \in Stages |-> 0]
  /\ pending = [st \in Stages |-> <<>>]
  /\ tasks = {}
  /\ hist = NoHist
  /\ call = NoCall

NextBreaker ==
  \/ \E w \in DOMAIN worker : Deliver(w)
  \/ \E w \in DOMAIN worker : Handle(w)
  \/ \E w \in DOMAIN worker : HGet(w)
  \/ \E w \in DOMAIN worker : Drop(w)
  \/ \E w \in DOMAIN worker : ReadEmpty(w)
  \/ \E w \in DOMAIN worker : ReadError(w)
  \/ \E w \in DOMAIN worker : HandleError(w)
  \/ \E w \in DOMAIN worker : Close(w)

SpecBreaker == InitBreaker /\ [][NextBreaker]_vars

\* update_indexing_results on its own: it is called with two url lists for
\* shop a.com and, once it has returned, it is called again with the same
\* arguments.  The lists hold duplicates and a url that has no row.
ListUrls == Urls \cup {"u3"}
Lists == UNION {[1..n -> ListUrls] : n \in 0..MaxLen}

NoSplit == [both |-> {}, google_only |-> {}, bing_only |-> {}]

InitCall ==
  /\ clock = 0
  /\ auth = {"a.com"}
  /\ creds = [s \in Shops |-> AuthRow(TRUE, TRUE)]
  /\ \E g \in BOOLEAN, b \in BOOLEAN :
       rows = [InitRows EXCEPT ![<<"a.com", "u1">>].isGoogleIndexed = g,
                               ![<<"a.com", "u1">>].isBingIndexed = b]
  /\ last_run = [s \in Shops |-> NoTime]
  /\ daily_runs = [s \in Shops |-> [d \in Days |-> 0]]
  /\ daily_exp = NoTime
  /\ stats = NoStats
  /\ sched = <<>>
  /\ env = <<>>
  /\ stream = [st \in Stages |-> <<>>]
  /\ nextId = 0
  /\ cursor = [st \in Stages |-> 0]
  /\ pending = [st \in Stages |-> <<>>]
  /\ worker = <<>>
  /\ tasks = {}
  /\ hist = NoHist
  /\ \E google_urls \in Lists, bing_urls \in Lists :
       call = [pc |-> "split", shop |-> "a.com", google_urls |-> google_urls,
               bing_urls |-> bing_urls, ret |-> NoSplit, runs |-> 0,
               once |-> rows]

\* update_indexing_results: both, google_only, bing_only = split_google_bing_urls
UpdateSplit ==
  /\ call.pc = "split"
  /\ call.runs < 2
  /\ call' = [call EXCEPT !.pc = "both",
                !.ret = split_google_bing_urls(call.google_urls, call.bing_urls)]
  /\ UNCHANGED <<clock, dbVars, schedVars, kvVars, groupVars, workVars, hist>>

\* update_indexing_results: update_google_and_bing(shop, both)
UpdateBoth ==
  /\ call.pc = "both"
  /\ rows' = update_google_and_bing(rows, call.shop, call.ret.both, clock)
  /\ call' = [call EXCEPT !.pc = "google_only"]
  /\ UNCHANGED <<clock, auth, creds, schedVars, kvVars, groupVars, workVars,
                 hist>>

\* update_indexing_results: update_google_only(shop, google_only)
UpdateGoogleOnly ==
  /\ call.pc = "google_only"
  /\ rows' = update_google_only(rows, call.shop, call.ret.google_only, clock)
  /\ call' = [call EXCEPT !.pc = "bing_only"]
  /\ UNCHANGED <<clock, auth, creds, schedVars, kvVars, groupVars, workVars,
                 hist>>

\* update_indexing_results: update_bing_only(shop, bing_only), and the return;
\* after the first call the rows are kept in call.once
UpdateBingOnly ==
  /\ call.pc = "bing_only"
  /\ rows' = update_bing_only(rows, call.shop, call.ret.bing_only)
  /\ call' = [call EXCEPT !.pc = "split", !.runs = @ + 1,
                          !.once = IF call.runs = 0 THEN rows' ELSE @]
  /\ UNCHANGED <<clock, auth, creds, schedVars, kvVars, groupVars, workVars,
                 hist>>

NextCall ==
  \/ Tick
  \/ UpdateSplit
  \/ UpdateBoth
  \/ UpdateGoogleOnly
  \/ UpdateBingOnly

SpecCall == InitCall /\ [][NextCall]_vars

(***************************************************************************)
(* BingIndexingProcessor (indexing_bing.py) on its own.                    *)
(***************************************************************************)
\* the pipeline at rest, for a function called on its own
InitAlone ==
  /\ clock = 0
  /\ auth = {"a.com"}
  /\ creds = [s \in Shops |-> AuthRow(TRUE, TRUE)]
  /\ rows = InitRows
  /\ last_run = [s \in Shops |-> NoTime]
  /\ daily_runs = [s \in Shops |-> [d \in Days |-> 0]]
  /\ daily_exp = NoTime
  /\ stats = NoStats
  /\ sched = <<>>
  /\ env = <<>>
  /\ stream = [st \in Stages |-> <<>>]
  /\ nextId = 0
  /\ cursor = [st \in Stages |-> 0]
  /\ pending = [st \in Stages |-> <<>>]
  /\ worker = <<>>
  /\ tasks = {}
  /\ hist = NoHist

\* BingIndexingProcessor.RETRY_DELAYS, in seconds
RETRY_DELAYS == <<1, 12, 24>>

\* what session.post ends in: a response with an HTTP status, or
\* asyncio.TimeoutError, aiohttp.ClientError or another exception
Http(status) == [kind |-> "http", status |-> status]
Posts ==
  {Http(st) : st \in {200, 403, 404, 429, 500}} \cup
  {[kind |-> k, status |-> 0] : k \in {"timeout", "client_error", "error"}}

\* _submit_batch: delay = RETRY_DELAYS[min(attempt, len(RETRY_DELAYS) - 1)],
\* an index that counts from 0
RetryDelay(attempt) ==
  LET i == IF attempt < Len(RETRY_DELAYS) - 1 THEN attempt
           ELSE Len(RETRY_DELAYS) - 1
  IN RETRY_DELAYS[i + 1]

\* a faulty variant of Retries: `attempt <= self.retry_limit`
RetriesOnceMore(post, attempt, retry_limit) ==
  CASE post.kind = "http" /\ post.status = 200 -> FALSE
    [] post.kind = "http" /\ post.status = 429 -> attempt <= retry_limit
    [] post.kind = "http" /\ post.status = 403 -> FALSE
    [] post.kind = "http" -> post.status >= 500 /\ attempt <= retry_limit
    [] post.kind \in {"timeout", "client_error"} -> attempt <= retry_limit
    [] OTHER -> FALSE

\* _submit_batch: the branches that sleep and call _submit_batch again
Retries(post, attempt, retry_limit) ==
  CASE post.kind = "http" /\ post.status = 200 -> FALSE
    [] post.kind = "http" /\ post.status = 429 -> attempt < retry_limit
    [] post.kind = "http" /\ post.status = 403 -> FALSE
    [] post.kind = "http" -> post.status >= 500 /\ attempt < retry_limit
    [] post.kind \in {"timeout", "client_error"} -> attempt < retry_limit
    [] OTHER -> FALSE

\* a faulty variant of BatchStatus: a 403 falls into the branch of the other
\* statuses
BatchStatusWithoutQuota(post) ==
  CASE post.kind = "http" /\ post.status = 200 -> "success"
    [] post.kind = "http" /\ post.status = 429 -> "rate_limited"
    [] OTHER -> "failed"

\* _submit_batch: the status of the BatchURLResult a branch returns
BatchStatus(post) ==
  CASE post.kind = "http" /\ post.status = 200 -> "success"
    [] post.kind = "http" /\ post.status = 429 -> "rate_limited"
    [] post.kind = "http" /\ post.status = 403 -> "quota_exceeded"
    [] OTHER -> "failed"

\* _submit_batch(session, batch, idx + 1) as process_job creates it: attempt
\* 1, outside the semaphore.  held counts the frames of the chunk that are
\* inside `async with self.semaphore`; posts and delays are history.
NewChunk == [pc |-> "acquire", attempt |-> 1, held |-> 0, posts |-> <<>>,
             delays |-> <<>>, returned |-> <<>>]

\* BingIndexingProcessor.process_job of a job whose urls make one chunk or
\* more, with any retryLimit in the settings
InitBing ==
  /\ InitAlone
  /\ \E n \in 1..MaxChunks, retry_limit \in 0..MaxRetryLimit :
       call = [pc |-> "gather", retry_limit |-> retry_limit,
               max_concurrent |-> MAX_CONCURRENT_REQUESTS,
               chunk |-> [c \in 1..n |-> NewChunk], results |-> <<>>]

\* process_job of a processor constructed with any max_concurrent
InitSemaphore ==
  /\ InitAlone
  /\ \E n \in 1..MaxChunks, retry_limit \in 0..MaxRetryLimit,
        max_concurrent \in 1..MaxConcurrent :
       call = [pc |-> "gather", retry_limit |-> retry_limit,
               max_concurrent |-> max_concurrent,
               chunk |-> [c \in 1..n |-> NewChunk], results |-> <<>>]

\* permits of self.semaphore in use
PermitsInUse ==
  LET RECURSIVE Sum(_)
      Sum(c) == IF c = 0 THEN 0 ELSE call.chunk[c].held + Sum(c - 1)
  IN Sum(Len(call.chunk))

\* _submit_batch: async with self.semaphore
SubmitAcquire(c) ==
  /\ call.pc = "gather"
  /\ call.chunk[c].pc = "acquire"
  /\ PermitsInUse < call.max_concurrent
  /\ call' = [call EXCEPT !.chunk[c].pc = "post", !.chunk[c].held = @ + 1]
  /\ UNCHANGED <<clock, dbVars, schedVars, kvVars, groupVars, workVars, hist>>

\* _submit_batch: session.post and the branch its outcome selects: a
\* BatchURLResult is returned through every frame of the chunk, which
\* releases their permits, or the frame sleeps
SubmitPost(c) ==
  LET ch == call.chunk[c] IN
  /\ call.pc = "gather"
  /\ ch.pc = "post"
  /\ \E post \in Posts :
       call' = [call EXCEPT !.chunk[c] =
         IF Retries(post, ch.attempt, call.retry_limit)
           THEN [ch EXCEPT !.pc = "sleep", !.posts = Append(@, post),
                           !.delays = Append(@, RetryDelay(ch.attempt))]
           ELSE [ch EXCEPT !.pc = "done", !.held = 0,
                           !.posts = Append(@, post),
                           !.returned = Append(@,
                             [status |-> BatchStatus(post),
                              attempts |-> ch.attempt,
                              http_status |-> post.status])]]
  /\ UNCHANGED <<clock, dbVars, schedVars, kvVars, groupVars, workVars, hist>>

\* _submit_batch: asyncio.sleep(delay) is over, and the frame calls
\* _submit_batch(session, batch_urls, batch_number, attempt + 1)
SubmitSleep(c) ==
  /\ call.pc = "gather"
  /\ call.chunk[c].pc = "sleep"
  /\ call' = [call EXCEPT !.chunk[c].pc = "acquire", !.chunk[c].attempt = @ + 1]
  /\ UNCHANGED <<clock, dbVars, schedVars, kvVars, groupVars, workVars, hist>>

\* process_job: asyncio.gather returns, and every result is added to
\* batch_result
Gather ==
  /\ call.pc = "gather"
  /\ \A c \in DOMAIN call.chunk : call.chunk[c].pc = "done"
  /\ call' = [call EXCEPT !.pc = "finalized",
       !.results = [c \in DOMAIN call.chunk |-> call.chunk[c].returned[1]]]
  /\ UNCHANGED <<clock, dbVars, schedVars, kvVars, groupVars, workVars, hist>>

NextBing ==
  \/ \E c \in DOMAIN call.chunk : SubmitAcquire(c)
  \/ \E c \in DOMAIN call.chunk : SubmitPost(c)
  \/ \E c \in DOMAIN call.chunk : SubmitSleep(c)
  \/ Gather

SpecBing == InitBing /\ [][NextBing]_vars

\* the event loop runs every coroutine that is ready: a POST is answered or
\* times out after REQUEST_TIMEOUT, a sleep ends, a free permit is taken
SpecSemaphore == InitSemaphore /\ [][NextBing]_vars /\ WF_vars(NextBing)

(***************************************************************************)
(* GoogleIndexingProcessor (google_indexing.py) on its own.                *)
(***************************************************************************)
\* what the batch holds for one url of a chunk: batch.add raises, or the
\* sub-response of the url is an HTTP status (300 and above reach the
\* callback as HttpError) or an exception that is not an HttpError
Subs ==
  {Http(st) : st \in {200, 403, 429, 500}} \cup
  {[kind |-> k, status |-> 0] : k \in {"exception", "add_error"}}

\* callback(request_id, response, exception): the URLResult of a url
URLResult(i, sub) ==
  CASE sub.kind = "http" /\ sub.status = 429 ->
         [url |-> i, status |-> "quota_exceeded", http_status |-> 429]
    [] sub.kind = "http" /\ sub.status >= 300 ->
         [url |-> i, status |-> "failed", http_status |-> sub.status]
    [] sub.kind = "http" ->
         [url |-> i, status |-> "success", http_status |-> 200]
    [] OTHER ->
         [url |-> i, status |-> "failed", http_status |-> 0]

\* _process_batch_chunk called with a chunk of one url or more (a url is its
\* position in the chunk), each with its own sub-response
InitGoogle ==
  /\ InitAlone
  /\ \E n \in 1..MaxLen : \E subs \in [1..n -> Subs] :
       call = [pc |-> "add", subs |-> subs, added |-> <<>>, k |-> 0,
               results |-> <<>>]

\* _process_batch_chunk: the for loop: a request and its callback are added to
\* the batch; for a url whose batch.add raises a failed URLResult is recorded
ChunkAdd ==
  LET ok == SelectSeq([i \in DOMAIN call.subs |-> i],
                      LAMBDA i : call.subs[i].kind # "add_error")
      bad == SelectSeq([i \in DOMAIN call.subs |-> i],
                       LAMBDA i : call.subs[i].kind = "add_error")
  IN /\ call.pc = "add"
     /\ call' = [call EXCEPT !.pc = "execute", !.added = ok,
          !.results = [j \in DOMAIN bad |-> URLResult(bad[j], call.subs[bad[j]])]]
     /\ UNCHANGED <<clock, dbVars, schedVars, kvVars, groupVars, workVars, hist>>

\* _process_batch_chunk: batch.execute() sends the batch, or raises before
\* any callback is made, which is logged
ChunkExecute ==
  /\ call.pc = "execute"
  /\ \E sent \in BOOLEAN :
       call' = [call EXCEPT !.pc = IF sent THEN "callbacks" ELSE "done"]
  /\ UNCHANGED <<clock, dbVars, schedVars, kvVars, groupVars, workVars, hist>>

\* a faulty variant of Callback: once a url of the batch was answered by 429,
\* every later url is recorded as quota_exceeded
CallbackAfterQuota ==
  LET i == call.added[call.k + 1]
      seen == \E j \in 1..call.k : call.subs[call.added[j]] = Http(429)
  IN /\ call.pc = "callbacks"
     /\ call.k < Len(call.added)
     /\ call' = [call EXCEPT !.k = @ + 1,
          !.results = Append(@, URLResult(i, IF seen THEN Http(429)
                                             ELSE call.subs[i]))]
     /\ UNCHANGED <<clock, dbVars, schedVars, kvVars, groupVars, workVars, hist>>

\* batch.execute(): the callback of the next request is called with its
\* sub-response and records the URLResult
Callback ==
  LET i == call.added[call.k + 1] IN
  /\ call.pc = "callbacks"
  /\ call.k < Len(call.added)
  /\ call' = [call EXCEPT !.k = @ + 1,
                          !.results = Append(@, URLResult(i, call.subs[i]))]
  /\ UNCHANGED <<clock, dbVars, schedVars, kvVars, groupVars, workVars, hist>>

\* batch.execute() returns after the last callback
ChunkDone ==
  /\ call.pc = "callbacks"
  /\ call.k = Len(call.added)
  /\ call' = [call EXCEPT !.pc = "done"]
  /\ UNCHANGED <<clock, dbVars, schedVars, kvVars, groupVars, workVars, hist>>

NextGoogle ==
  \/ ChunkAdd
  \/ ChunkExecute
  \/ Callback
  \/ ChunkDone

SpecGoogle == InitGoogle /\ [][NextGoogle]_vars

(***************************************************************************)
(* _prepare_urls_from_actions of the two processors on their own.          *)
(***************************************************************************)
\* int(limit * 1.10).  The double nearest 1.10 lies above 11/10 by less than
\* 2^-52, so for every limit below 2^31 the product truncates to the same
\* integer as 110 * limit / 100.
effective_limit(limit) == (limit * 110) \div 100

\* the items of a list while fewer than n were taken (`break`)
Take(xs, n) == SubSeq(xs, 1, IF n < Len(xs) THEN n ELSE Len(xs))

\* GoogleIndexingProcessor._prepare_urls_from_actions and the url_list of
\* process_job: the urls of INDEX as URL_UPDATED, then those of DELETE as
\* URL_DELETED, while url_mapping holds fewer than effective_limit urls
GooglePrepare(index, delete, google_limit) ==
  Take([i \in DOMAIN index |-> <<index[i], "URL_UPDATED">>] \o
       [i \in DOMAIN delete |-> <<delete[i], "URL_DELETED">>],
       effective_limit(google_limit))

\* BingIndexingProcessor._prepare_urls_from_actions: the urls of INDEX while
\* url_list holds fewer than effective_limit urls; DELETE is only counted
BingPrepare(index, delete, bing_limit) ==
  Take(index, effective_limit(bing_limit))

\* the lists of actions["INDEX"] and actions["DELETE"] of a batch job: L1
\* puts every url row under one of them, once
ActionLists ==
  {p \in Lists \X Lists :
     /\ Cardinality(ToSet(p[1] \o p[2])) = Len(p[1]) + Len(p[2])
     /\ Len(p[1]) + Len(p[2]) <= MaxLen}

\* the values of bingLimit and googleLimit in the settings of the job's auth
PrepLimits == 0..MaxLen

\* a batch job reaches the two processors of L2
InitPrep ==
  /\ InitAlone
  /\ \E p \in ActionLists, g \in PrepLimits, b \in PrepLimits :
       call = [pc |-> "prepare", index |-> p[1], delete |-> p[2],
               googleLimit |-> g, bingLimit |-> b,
               google |-> <<>>, google_done |-> FALSE,
               bing |-> <<>>, bing_done |-> FALSE]

\* BingIndexingProcessor.process_job: url_list
PrepareBing ==
  /\ call.pc = "prepare"
  /\ ~call.bing_done
  /\ call' = [call EXCEPT !.bing_done = TRUE,
        !.bing = BingPrepare(call.index, call.delete, call.bingLimit)]
  /\ UNCHANGED <<clock, dbVars, schedVars, kvVars, groupVars, workVars, hist>>

\* GoogleIndexingProcessor.process_job: url_list
PrepareGoogle ==
  /\ call.pc = "prepare"
  /\ ~call.google_done
  /\ call' = [call EXCEPT !.google_done = TRUE,
        !.google = GooglePrepare(call.index, call.delete, call.googleLimit)]
  /\ UNCHANGED <<clock, dbVars, schedVars, kvVars, groupVars, workVars, hist>>

NextPrep ==
  \/ PrepareBing
  \/ PrepareGoogle

SpecPrep == InitPrep /\ [][NextPrep]_vars

(***************************************************************************)
(* Claims about the scheduler.                                             *)
(***************************************************************************)
\* the seed jobs of a shop: L1 envelopes that have their entry in stream:L1
SeedJobs(shop) ==
  {j \in DOMAIN env :
     /\ env[j].stage = 1
     /\ env[j].shop = shop
     /\ \E k \in 1..Len(stream[1]) : stream[1][k].job_id = j}

\* the seed jobs a shop received on one UTC calendar day
SeedJobsOn(shop, day) ==
  {j \in SeedJobs(shop) : DayOf(env[j].created_at) = day}

\* C1: with one scheduler process, whatever the times of its cycles, a shop
\* receives at most MAX_RUNS_PER_DAY seed jobs within one UTC calendar day.
C1_AtMostTwoSeedsPerDay ==
  Cardinality(DOMAIN sched) = 1 =>
    \A shop \in Shops : \A day \in Days :
      Cardinality(SeedJobsOn(shop, day)) <= MAX_RUNS_PER_DAY

\* C2: any two L1 envelopes of one shop carry created_at timestamps at least
\* MIN_HOURS_BETWEEN_RUNS apart.
C2_EnvelopesTwelveHoursApart ==
  \A shop \in Shops : \A j, k \in SeedJobs(shop) :
    j # k =>
      \/ env[j].created_at - env[k].created_at >= MIN_HOURS_BETWEEN_RUNS
      \/ env[k].created_at - env[j].created_at >= MIN_HOURS_BETWEEN_RUNS

\* C3: with two scheduler processes on one kv-store, in every interleaving a
\* shop receives at most MAX_RUNS_PER_DAY seed jobs per UTC calendar day.
C3_TwoInstancesAtMostTwoSeedsPerDay ==
  Cardinality(DOMAIN sched) = 2 =>
    \A shop \in Shops : \A day \in Days :
      Cardinality({j \in SeedJobs(shop) : DayOf(env[j].created_at) = day})
        <= MAX_RUNS_PER_DAY

(***************************************************************************)
(* Claims about the workers.                                               *)
(***************************************************************************)
\* the entry was delivered and is no longer pending for the group
Acked(st, m) == m <= cursor[st] /\ m \notin DOMAIN pending[st]

\* the job id of entry m of a stream
JobOf(st, m) == stream[st][m].job_id

\* the job of the entry is live and names its shop
WellFormed(st, m) ==
  /\ JobOf(st, m) \in DOMAIN env
  /\ HasShop(env[JobOf(st, m)].data)

\* C4: for every entry handed to process_job: once process_job has returned
\* the entry is acknowledged, and an acknowledged entry's envelope has a
\* terminal status. Stated for the jobs that name their shop and whose
\* envelope is live.
C4_TerminalStatusBeforeAck ==
  /\ \A e \in hist.returned : Acked(e[1], e[2])
  /\ \A e \in hist.handed :
       (Acked(e[1], e[2]) /\ WellFormed(e[1], e[2]))
         => env[JobOf(e[1], e[2])].status \in Terminal

\* C5: an entry that its worker process lost (the process was killed between
\* delivery and xack) is eventually acknowledged with its job's envelope in a
\* terminal status.
C5_LostEntryProcessedAgain ==
  \A st \in Stages : \A m \in 1..MaxJobs :
    (<<st, m>> \in hist.lost)
      ~> (/\ m <= Len(stream[st])
          /\ Acked(st, m)
          /\ StatusOf(JobOf(st, m)) \in Terminal \cup {"gone"})

\* C6 as stated: after a process_job task was cancelled, its job's envelope
\* still has the status it was queued with and its entry is still pending.
C6_CancelledJobStaysQueued ==
  \A c \in hist.cancelled :
    /\ StatusOf(c.job) \in {"queued", "gone"}
    /\ c.msg \in DOMAIN pending[c.st]

\* the awaits of process_job that come before its own status write
EarlyPcs ==
  {"acquire", "ack_bad", "fetch", "ack_noauth", "nourls_hset", "nocreds_hset",
   "bing", "google", "db_both", "db_google", "db_bing", "next_hset",
   "next_expire", "next_xadd", "done_hset"}

\* C6, amended: a cancelled process_job task is gone and issues no further
\* command: its job's envelope keeps the status it had at the cancellation and
\* its entry stays pending or acknowledged as it was then; cancelled before its
\* own status write, it leaves a non-terminal envelope and a pending entry.
C6_CancelledTaskWritesNothing ==
  \A c \in hist.cancelled :
    /\ \A t \in tasks : (StageOf(t) = c.st /\ t.msg = c.msg) => t.cancelled
    /\ c.job \in DOMAIN env => env[c.job].status = c.status
    /\ c.acked <=> Acked(c.st, c.msg)
    /\ c.pc \in EarlyPcs => c.status \notin Terminal /\ ~c.acked

\* a task was cancelled after it had emitted the downstream job and before its
\* status write: the envelope is still queued and the entry pending
C6_Witness ==
  \E c \in hist.cancelled :
    /\ c.pc = "done_hset"
    /\ c.st = 2
    /\ StatusOf(c.job) = "queued"
    /\ c.msg \in DOMAIN pending[c.st]

\* the entry has no job_id, its envelope has no data, or the data is not JSON
Defective(st, m) ==
  \/ JobOf(st, m) = 0
  \/ IsGhost(st, JobOf(st, m))
  \/ env[JobOf(st, m)].data.kind = "bad_json"

\* C7: when the read loop of a stage examines a delivered entry that has no
\* job_id, whose envelope has no data, or whose data is not valid JSON, every
\* step it takes with the entry leads to the drop, creates no task and changes
\* no envelope and no stream, and the drop acknowledges the entry; a dropped
\* entry is acknowledged and was never handed to process_job.
C7_DefectiveEntryDropped ==
  /\ [](\A e \in hist.dropped : Acked(e[1], e[2]) /\ e \notin hist.handed)
  /\ [][\A w \in DOMAIN worker :
          LET st == worker[w].stage
              m == worker[w].msg
              pc == worker[w].pc
              pc2 == worker'[w].pc IN
          (/\ pc \in {"handle", "hget", "drop"}
           /\ pc2 # pc
           /\ pc2 # "exited"
           /\ worker'[w].epoch = worker[w].epoch
           /\ Defective(st, m))
          => /\ tasks' = tasks
             /\ env' = env
             /\ stream' = stream
             /\ pc = "handle" => pc2 = (IF JobOf(st, m) = 0 THEN "drop" ELSE "hget")
             /\ pc = "hget" => pc2 = "drop"
             /\ pc = "drop" => pc2 = "read" /\ ~(m \in DOMAIN pending'[st])]_vars

\* a ghost job (its envelope expired) was dropped: acknowledged, with no task
C7_Witness ==
  \E e \in hist.dropped :
    /\ JobOf(e[1], e[2]) # 0
    /\ JobOf(e[1], e[2]) \notin DOMAIN env
    /\ Acked(e[1], e[2])
    /\ e \notin hist.handed

\* a producer is between the envelope write and the stream append of job id
InProduction(id) ==
  \E t \in tasks : ~t.cancelled /\ t.next = id /\ t.pc \in {"next_expire", "next_xadd"}

\* the entries of the envelope's stream that name it
EntriesOf(id) ==
  {k \in 1..Len(stream[env[id].stage]) : stream[env[id].stage][k].job_id = id}

\* C8: every live envelope whose producer is not between the envelope write
\* and the stream append has exactly one entry in the stream of its stage;
\* stated for the behaviours in which no process is killed and no task is
\* cancelled, where a producer stops only because one of its commands raises.
C8_OneEntryPerEnvelope ==
  (hist.lost = {} /\ hist.cancelled = {}) =>
    \A id \in DOMAIN env : InProduction(id) \/ Cardinality(EntriesOf(id)) = 1

(***************************************************************************)
(* Claims about the url rows.                                              *)
(***************************************************************************)
\* C9: no step changes isGoogleIndexed or isBingIndexed of a row from TRUE to
\* FALSE.
C9_FlagsNeverCleared ==
  [][\A k \in DOMAIN rows :
       /\ rows[k].isGoogleIndexed => rows'[k].isGoogleIndexed
       /\ rows[k].isBingIndexed => rows'[k].isBingIndexed]_vars

\* a finished job reported a url for Google alone whose isGoogleIndexed was
\* already TRUE: the row was left as it was
C9_Witness ==
  \E e \in hist.returned : \E u \in Urls :
    LET data == env[JobOf(e[1], e[2])].data IN
    /\ e[1] = 3
    /\ JobOf(e[1], e[2]) \in DOMAIN env
    /\ u \in data.google.urls \ data.bing.urls
    /\ rows[<<data.shop, u>>].isGoogleIndexed
    /\ rows[<<data.shop, u>>].lastIndexedAt = NoTime

\* the L3 tasks that take a step (their record changes)
Acting == {t \in tasks : t \notin tasks' /\ t.pc \in ThreadPcs}

\* C10: a step that changes a row is a step of an L3 job of the row's shop
\* whose envelope lists the url; a row's status changes only to COMPLETED and
\* only for a url in both lists; for a url in the Google list alone the step
\* changes at most isGoogleIndexed (to TRUE) and lastIndexedAt, for a url in
\* the Bing list alone at most isBingIndexed (to TRUE).
C10_CompletedOnlyWhenBoth ==
  [][\A k \in DOMAIN rows :
       rows'[k] # rows[k] =>
         \E t \in Acting :
           LET S == Split(t) IN
           /\ t.data.shop = k[1]
           /\ k[2] \in S.both \cup S.google_only \cup S.bing_only
           /\ rows'[k].status # rows[k].status =>
                rows'[k].status = "COMPLETED" /\ k[2] \in S.both
           /\ k[2] \in S.google_only =>
                rows'[k] = [rows[k] EXCEPT !.isGoogleIndexed = TRUE,
                                           !.lastIndexedAt = clock]
           /\ k[2] \in S.bing_only =>
                rows'[k] = [rows[k] EXCEPT !.isBingIndexed = TRUE]]_vars

\* one job set the Google flag alone and the other the Bing flag alone: the
\* url has both flags and is still PENDING, next to a url that is COMPLETED
C10_Witness ==
  \E u, v \in Urls :
    /\ rows[<<"a.com", u>>].isGoogleIndexed
    /\ rows[<<"a.com", u>>].isBingIndexed
    /\ rows[<<"a.com", u>>].status = "PENDING"
    /\ rows[<<"a.com", u>>].lastIndexedAt # NoTime
    /\ rows[<<"a.com", v>>].status = "COMPLETED"
    /\ Cardinality(hist.returned) = 2

(***************************************************************************)
(* Claims about one scheduling cycle.                                      *)
(***************************************************************************)
\* the step with which scheduler i ends the evaluation of a shop, the key
\* scheduler:daily_runs not having reached the expiry it had when the
\* evaluation began
EndsEvaluation(i) ==
  /\ sched[i].pc \in {"get_last_run", "get_count", "incr_expire"}
  /\ ~(sched[i].pre.exp # NoTime /\ clock >= sched[i].pre.exp)
  /\ sched'[i].scheduled + sched'[i].skipped
       = sched[i].scheduled + sched[i].skipped + 1

\* C16: in a scheduling cycle in which no command raises and the key
\* scheduler:daily_runs does not expire, when the evaluation of a shop ends: if the shop was eligible at the cycle's timestamp, exactly
\* one envelope, with status queued and a fresh job id, has been written for
\* it, exactly one entry with that job id and the shop has been appended to
\* stream:L1, last_run of the shop is the cycle's timestamp and daily_runs of
\* the shop for the cycle's day has grown by 1; if it was not eligible, none
\* of the four has changed for the shop.
C16_CycleEffectPerShop ==
  [][\A i \in DOMAIN sched :
       EndsEvaluation(i) =>
         LET s == sched[i]
             shop == Head(s.todo)
             eligible ==
               /\ s.pre.last_run = NoTime
                    \/ s.now - s.pre.last_run >= MIN_HOURS_BETWEEN_RUNS
               /\ s.pre.count < MAX_RUNS_PER_DAY
             envelopes == {j \in DOMAIN env' :
                             env'[j].stage = 1 /\ env'[j].shop = shop}
             entries == {k \in 1..Len(stream'[1]) : stream'[1][k].shop = shop}
             count == IF daily_exp' # NoTime /\ clock' >= daily_exp' THEN 0
                      ELSE daily_runs'[shop][DayOf(s.now)]
         IN IF eligible
              THEN /\ sched'[i].scheduled = s.scheduled + 1
                   /\ \E j \in envelopes \ s.pre.jobs :
                        /\ envelopes = s.pre.jobs \cup {j}
                        /\ env'[j].status = "queued"
                        /\ Cardinality({k \in entries :
                                          stream'[1][k].job_id = j}) = 1
                   /\ Cardinality(entries) = s.pre.entries + 1
                   /\ last_run'[shop] = s.now
                   /\ count = s.pre.count + 1
              ELSE /\ sched'[i].skipped = s.skipped + 1
                   /\ envelopes = s.pre.jobs
                   /\ Cardinality(entries) = s.pre.entries
                   /\ last_run'[shop] = s.pre.last_run
                   /\ count = s.pre.count]_vars

\* a cycle has skipped the two shops, each of which received its seed job in
\* an earlier cycle
C16_Witness ==
  \E i \in DOMAIN sched :
    /\ sched[i].pc = "stats"
    /\ sched[i].skipped = 2
    /\ hist.cycles >= 1
    /\ \A shop \in Shops :
         \E k \in 1..Len(stream[1]) : stream[1][k].shop = shop

\* C17: after every scheduling cycle of the one scheduler process,
\* scheduler:stats reflects that cycle: last_scheduled_count is the number of
\* shops that received a seed job in it, last_skipped_count the number of
\* shops that did not, total_shops_evaluated the number of shops, and
\* total_runs has grown by 1 with the cycle.
C17_StatsReflectTheCycle ==
  ((\A i \in DOMAIN sched : sched[i].pc = "idle") /\ hist.cycles > 0) =>
    /\ stats.total_runs = hist.cycles
    /\ stats.last_scheduled_count = hist.last.jobs
    /\ stats.last_skipped_count = hist.last.shops - hist.last.jobs
    /\ stats.total_shops_evaluated = hist.last.shops

\* C18: once a process started in manual mode for a shop has ended, it has
\* written one seed job of the shop and appended it to stream:L1, whatever
\* last_run and daily_runs of the shop were, and last_run of the shop is set
\* and daily_runs of the shop counts a run.
C18_ManualTriggerEmitsOneJob ==
  \A i \in DOMAIN sched :
    (sched[i].mode = "manual" /\ sched[i].pc \in {"exit_1", "closed"}) =>
      LET shop == Head(sched[i].todo) IN
      /\ sched[i].job \in SeedJobs(shop)
      /\ last_run[shop] # NoTime
      /\ \E d \in Days : DailyRunsNow[shop][d] >= 1

\* C33: at the end of every scheduling cycle scheduler:daily_runs holds no
\* entry shop:date whose date lies more than 2 days before the time of the
\* cycle, and the entries that are not older are as they were.
C33_OldDailyRunsReaped ==
  [][hist'.cycles = hist.cycles + 1 =>
       \A sh \in Shops : \A d \in Days :
         /\ d * 24 < clock' - 48 => DailyRunsNow'[sh][d] = 0
         /\ d * 24 >= clock' - 48 => DailyRunsNow'[sh][d] = DailyRunsNow[sh][d]]_vars

\* the commands that raised while a shop was evaluated
FaultsOf(shop) == {f.at : f \in {g \in hist.faults : g.shop = shop}}

\* the loop of schedule_eligible_shops is past the shop
Evaluated(shop) ==
  \A i \in DOMAIN sched :
    IF sched[i].pc = "idle" THEN hist.cycles = MaxCycles
    ELSE shop \notin ToSet(sched[i].todo)

\* C37: the state handling of the scheduler fails open.  A shop is skipped
\* only because a read that succeeded found the last run too recent or the
\* daily count used up, or because emitting its job raised; a shop whose job
\* was emitted keeps its entry and is counted as scheduled, also when writing
\* last_run or daily_runs raised afterwards; and an exception while a shop's
\* job is emitted skips that shop alone: every shop is evaluated.
C37_SchedulerFailsOpen ==
  /\ \A shop \in Shops :
       (Evaluated(shop) /\ StreamEntriesOf(shop) = {}) =>
         \/ FaultsOf(shop) \cap {"job_hset", "job_expire", "job_xadd"} # {}
         \/ "get_last_run" \notin FaultsOf(shop) /\ TooSoon(shop, clock)
         \/ "get_count" \notin FaultsOf(shop) /\ QuotaReached(shop, clock)
  /\ \A shop \in Shops :
       FaultsOf(shop) \cap {"job_hset", "job_expire", "job_xadd"} # {}
         => StreamEntriesOf(shop) = {}
  /\ \A i \in DOMAIN sched : sched[i].pc # "idle" =>
       /\ sched[i].scheduled =
            Cardinality({sh \in Shops : Evaluated(sh) /\ StreamEntriesOf(sh) # {}})
       /\ sched[i].skipped =
            Cardinality({sh \in Shops : Evaluated(sh) /\ StreamEntriesOf(sh) = {}})
  /\ hist.cycles = MaxCycles =>
       /\ stats.last_scheduled_count =
            Cardinality({sh \in Shops : StreamEntriesOf(sh) # {}})
       /\ stats.total_shops_evaluated = Cardinality(Shops)

\* the cycle is over: the job of b.com was emitted although its last run was
\* too recent, because both reads raised, and writing last_run raised
\* afterwards
C37_Witness ==
  /\ hist.cycles = MaxCycles
  /\ FaultsOf("b.com") = {"get_last_run", "get_count", "set_last_run"}
  /\ TooSoon("b.com", clock)
  /\ StreamEntriesOf("b.com") # {}
  /\ stats.last_scheduled_count >= 1

(***************************************************************************)
(* Claims about update_indexing_results.                                   *)
(***************************************************************************)
\* C11: for every two url lists, with duplicates and empty lists among them,
\* split_google_bing_urls returns three pairwise disjoint sets whose union is
\* the urls of the two lists, and both is the urls that are in the two lists.
C11_SplitPartitionsTheUrls ==
  call.pc \in {"both", "google_only", "bing_only"} =>
    LET google_set == {call.google_urls[i] : i \in 1..Len(call.google_urls)}
        bing_set == {call.bing_urls[i] : i \in 1..Len(call.bing_urls)}
        r == call.ret
    IN /\ r.both \cap r.google_only = {}
       /\ r.both \cap r.bing_only = {}
       /\ r.google_only \cap r.bing_only = {}
       /\ r.both \cup r.google_only \cup r.bing_only = google_set \cup bing_set
       /\ r.both = google_set \cap bing_set

\* the split of a list with a duplicate and a list that shares one url,
\* where none of the three sets is empty
C11_Witness ==
  /\ call.pc = "both"
  /\ \E i, j \in 1..Len(call.google_urls) :
       i # j /\ call.google_urls[i] = call.google_urls[j]
  /\ call.ret.both # {}
  /\ call.ret.google_only # {}
  /\ call.ret.bing_only # {}

\* C12: once update_indexing_results has been applied twice with the same shop
\* and the same two url lists, isGoogleIndexed, isBingIndexed, status and
\* lastIndexedAt of every row are what they were after the first application.
C12_SecondApplicationChangesNothing ==
  (call.pc = "split" /\ call.runs = 2) =>
    \A k \in DOMAIN rows :
      /\ rows[k].isGoogleIndexed = call.once[k].isGoogleIndexed
      /\ rows[k].isBingIndexed = call.once[k].isBingIndexed
      /\ rows[k].status = call.once[k].status
      /\ rows[k].lastIndexedAt = call.once[k].lastIndexedAt

(***************************************************************************)
(* Claims about the tasks of one worker process.                           *)
(***************************************************************************)
\* C13: in every worker process, at every moment, the number of process_job
\* executions between acquiring and releasing JOB_LIMIT is at most the limit
\* of the stage: 2 for L1, 4 for L2, 1 for L3.
C13_InsideSemaphoreAtMostLimit ==
  \A w \in DOMAIN worker :
    Cardinality({t \in tasks : t.w = w /\ t.pc # "acquire" /\ ~t.cancelled})
      <= (CASE worker[w].stage = 1 -> 2
            [] worker[w].stage = 2 -> 4
            [] OTHER -> 1)

\* the L2 worker with four executions inside JOB_LIMIT and a fifth one waiting
C13_Witness ==
  \E w \in DOMAIN worker :
    /\ worker[w].stage = 2
    /\ Cardinality({t \in tasks : t.w = w /\ t.pc # "acquire"}) = L2_JOB_LIMIT
    /\ \E t \in tasks : t.w = w /\ t.pc = "acquire"

\* C14: in every worker process, at every moment, the number of process_job
\* tasks the read loop created and that have not finished is at most the
\* limit of the stage.
C14_TasksAtMostLimit ==
  \A w \in DOMAIN worker :
    Cardinality({t \in tasks : t.w = w /\ ~t.cancelled})
      <= StageLimit(worker[w].stage)

\* C19: once L1 has processed a job of a shop that has an Auth row and no url
\* row selected, the job's envelope has status completed and message "No URLs
\* to process", the entry is acknowledged, and there is no L2 envelope and no
\* stream:L2 entry of the shop.
C19_NoUrlsCompletesWithoutL2Job ==
  \A e \in hist.nourls \cap hist.returned :
    LET j == stream[e[1]][e[2]].job_id IN
    /\ e[1] = 1
    /\ j \in DOMAIN env
    /\ env[j].status = "completed"
    /\ env[j].message = "No URLs to process"
    /\ e[2] \notin DOMAIN pending[1]
    /\ \A k \in DOMAIN env : ~(env[k].stage = 2 /\ env[k].shop = env[j].shop)
    /\ \A i \in 1..Len(stream[2]) : stream[2][i].shop # env[j].shop

\* L1 has returned from a job without urls, and from a job of another shop
\* whose L2 job is queued
C19_Witness ==
  /\ hist.nourls \cap hist.returned # {}
  /\ stream[2] # <<>>
  /\ \E e \in hist.returned \ hist.nourls : e[1] = 1

\* C15: in every worker's read loop, whenever max_consecutive_errors
\* iterations in a row have ended in an exception raised while reading or
\* while handling a delivered entry, the loop has set the shutdown flag and
\* has exited.
C15_TenFailuresStopTheLoop ==
  \A w \in DOMAIN worker :
    worker[w].streak >= max_consecutive_errors =>
      /\ worker[w].shutdown
      /\ worker[w].pc \in {"exited", "closed"}

(***************************************************************************)
(* Claims about a job of a shop without an Auth row.                       *)
(***************************************************************************)
\* C20: once L1 has processed a job of a shop that has no Auth row, the job's
\* envelope has status completed and message "No Auth", the entry is
\* acknowledged, and no L2 job of the shop exists.
C20_NoAuthMarkedCompleted ==
  \A e \in hist.noauth \cap hist.returned :
    LET j == stream[e[1]][e[2]].job_id IN
    j \in DOMAIN env =>
      /\ env[j].status = "completed"
      /\ env[j].message = "No Auth"
      /\ e[2] \notin DOMAIN pending[1]
      /\ \A i \in 1..Len(stream[2]) : stream[2][i].shop # env[j].shop

(***************************************************************************)
(* Claims about the job L1 hands to L2.                                    *)
(***************************************************************************)
\* the runs of L1's query that returned at least one url row
WithUrls == {f \in hist.fetched : f.urls # {}}

\* the entries of stream:L2 that name job id
BatchEntries(id) == {k \in 1..Len(stream[2]) : stream[2][k].job_id = id}

\* C21: for every L1 job of a shop with an Auth row whose query returned at
\* least one url row: L1 writes one L2 envelope under a job id of its own,
\* with status queued and every url selected once, under INDEX or under DELETE
\* as its indexAction says; it appends one entry naming that id to stream:L2
\* and none before the envelope is written; it marks the L1 envelope completed
\* with urls_processed the number of urls selected, and not before the entry
\* is appended; and it acknowledges only after that.  There are no more L2
\* envelopes and no more stream:L2 entries than such jobs.
C21_L1EmitsOneBatch ==
  /\ Cardinality({id \in DOMAIN env : env[id].stage = 2}) <= Cardinality(WithUrls)
  /\ Len(stream[2]) <= Cardinality(WithUrls)
  /\ \A f \in WithUrls :
       /\ f.next \notin {JobOf(1, k) : k \in 1..Len(stream[1])}
       /\ \A g \in WithUrls : g.next = f.next => g = f
       /\ Cardinality(BatchEntries(f.next)) <= 1
       /\ BatchEntries(f.next) # {} =>
            /\ f.next \in DOMAIN env
            /\ env[f.next].stage = 2
            /\ env[f.next].status = "queued"
            /\ env[f.next].data.kind = "batch"
            /\ env[f.next].data.shop = f.shop
            /\ env[f.next].data.index =
                 {u \in f.urls : rows[<<f.shop, u>>].indexAction = "INDEX"}
            /\ env[f.next].data.delete =
                 {u \in f.urls : rows[<<f.shop, u>>].indexAction = "DELETE"}
            /\ env[f.next].data.index \cup env[f.next].data.delete = f.urls
       /\ env[f.job].status = "completed" =>
            /\ BatchEntries(f.next) # {}
            /\ env[f.job].urls_processed = Str(Cardinality(f.urls))
       /\ Acked(1, f.msg) => env[f.job].status = "completed"

\* both jobs are acknowledged, and the query of one of them returned a url
\* with action INDEX and one with action DELETE
C21_Witness ==
  /\ \A k \in 1..Len(stream[1]) : Acked(1, k)
  /\ Cardinality(WithUrls) = 2
  /\ \E f \in WithUrls :
       /\ \E u \in f.urls : rows[<<f.shop, u>>].indexAction = "INDEX"
       /\ \E u \in f.urls : rows[<<f.shop, u>>].indexAction = "DELETE"

\* C30: the row limit of every run of L1's query is the ceiling of 1.05 times
\* the larger one of bingLimit and googleLimit of the shop's Auth row.
C30_LimitIsCeilingOfProduct ==
  \A f \in hist.fetched :
    LET b == creds[f.shop].bingLimit
        g == creds[f.shop].googleLimit
        m == IF b >= g THEN b ELSE g
    IN f.limit = (m * 105 + 99) \div 100

\* the url rows of a shop that are PENDING, not IGNORE and not known to Google
Eligible(shop) ==
  {u \in Urls : /\ rows[<<shop, u>>].status = "PENDING"
                /\ rows[<<shop, u>>].indexAction # "IGNORE"
                /\ ~rows[<<shop, u>>].isGoogleIndexed}

\* C31: the urls L1 places in the L2 batch of a shop are the first
\* final_limit rows, by attempts descending, of the shop's url rows with status
\* PENDING, indexAction other than IGNORE and isGoogleIndexed false: they are
\* such rows of that shop, final_limit of them or all when there are fewer,
\* and no row left out has more attempts than a row taken.
C31_BatchHoldsFirstRows ==
  \A f \in hist.fetched :
    /\ f.urls \subseteq Eligible(f.shop)
    /\ Cardinality(f.urls) =
         IF f.limit < Cardinality(Eligible(f.shop)) THEN f.limit
         ELSE Cardinality(Eligible(f.shop))
    /\ \A u \in f.urls : \A v \in Eligible(f.shop) \ f.urls :
         rows[<<f.shop, u>>].attempts >= rows[<<f.shop, v>>].attempts
    /\ (f.next \in DOMAIN env /\ env[f.next].stage = 2) =>
         /\ env[f.next].data.shop = f.shop
         /\ env[f.next].data.index \cup env[f.next].data.delete = f.urls

\* the batch of a job is written with one url, the one with more attempts
\* of two rows that pass the filters, under a limit of one row
C31_Witness ==
  \E f \in hist.fetched :
    /\ f.limit = 1
    /\ Cardinality(Eligible(f.shop)) = 2
    /\ f.next \in DOMAIN env
    /\ env[f.next].data.index \cup env[f.next].data.delete = {"u2"}
    /\ rows[<<f.shop, "u2">>].attempts > rows[<<f.shop, "u1">>].attempts

\* the least integer that is not below 1.10 times the limit
CeilingOfBuffer(limit) == (limit * 110 + 99) \div 100

\* C32: for every batch job and every limit, the urls submitted to Google
\* are the first ceiling(1.10 x googleLimit) of the INDEX list, as
\* URL_UPDATED, followed by the DELETE list, as URL_DELETED, and the urls
\* submitted to Bing are the first ceiling(1.10 x bingLimit) of the INDEX
\* list and never a url of the DELETE list.
C32_BufferedLimitIsCeiling ==
  /\ call.google_done =>
       call.google =
         Take([i \in DOMAIN call.index |-> <<call.index[i], "URL_UPDATED">>] \o
              [i \in DOMAIN call.delete |-> <<call.delete[i], "URL_DELETED">>],
              CeilingOfBuffer(call.googleLimit))
  /\ call.bing_done =>
       /\ call.bing = Take(call.index, CeilingOfBuffer(call.bingLimit))
       /\ ToSet(call.bing) \cap ToSet(call.delete) = {}
(***************************************************************************)
\* the credential is present and its string form is longer than 10 characters
PassesGate(key) == key # NoKey /\ key > 10

\* the providers an L2 job has called
CalledProviders(j) == {c.provider : c \in {d \in hist.calls : d.job = j}}

\* the L3 envelopes that hold the response of an L2 job
ResultsOf(j) ==
  {id \in DOMAIN env : /\ env[id].stage = 3
                       /\ env[id].data.kind = "result"
                       /\ env[id].data.job_id = j}

\* C22: for every batch job handed to L2's process_job: a provider is called
\* only if its credential is present and longer than 10 characters, and once
\* process_job has returned every provider with such a credential has been
\* called; in the response a provider without such a credential has
\* executed false and reason missing_credentials; when neither provider has
\* one, no L3 envelope and no stream:L3 entry is written, and once
\* process_job has returned the L2 envelope has status completed and message
\* "No valid credentials" and the entry is acknowledged.
C22_ProviderCalledIffCredential ==
  \A e \in hist.handed :
    e[1] = 2 =>
      LET j == JobOf(2, e[2])
          google == PassesGate(env[j].data.googleConfig)
          bing == PassesGate(env[j].data.bingApiKey)
      IN /\ "google" \in CalledProviders(j) => google
         /\ "bing" \in CalledProviders(j) => bing
         /\ e \in hist.returned =>
              /\ google => "google" \in CalledProviders(j)
              /\ bing => "bing" \in CalledProviders(j)
         /\ \A id \in ResultsOf(j) :
              /\ ~google => /\ ~env[id].data.google.executed
                            /\ env[id].data.google.reason = "missing_credentials"
              /\ ~bing => /\ ~env[id].data.bing.executed
                          /\ env[id].data.bing.reason = "missing_credentials"
         /\ (~google /\ ~bing) =>
              /\ ResultsOf(j) = {}
              /\ stream[3] = <<>>
              /\ e \in hist.returned =>
                   /\ env[j].status = "completed"
                   /\ env[j].message = "No valid credentials"
                   /\ Acked(2, e[2])

\* L2 has returned from a job whose Bing credential is 10 characters long
\* and whose Google credential is longer: the response is queued for L3
C22_Witness ==
  \E e \in hist.returned :
    /\ e[1] = 2
    /\ env[JobOf(2, e[2])].data.bingApiKey = 10
    /\ env[JobOf(2, e[2])].data.googleConfig > 10
    /\ ResultsOf(JobOf(2, e[2])) # {}
    /\ stream[3] # <<>>

\* C23: for every batch job handed to L2's process_job whose two credentials
\* pass the gate: Google is called whatever the Bing call handed back; the
\* response holds for each provider what its own call handed back, the result
\* when it returned one and executed false otherwise, whatever the other call
\* did; and once process_job has returned, one L3 envelope holding the
\* response and one stream:L3 entry naming it exist.
C23_ProvidersIndependent ==
  \A e \in hist.handed :
    LET j == JobOf(2, e[2]) IN
    (/\ e[1] = 2
     /\ PassesGate(env[j].data.googleConfig)
     /\ PassesGate(env[j].data.bingApiKey)) =>
      /\ \A id \in ResultsOf(j) :
           /\ CalledProviders(j) = {"bing", "google"}
           /\ \A c \in hist.calls :
                c.job = j =>
                  LET block == IF c.provider = "bing" THEN env[id].data.bing
                               ELSE env[id].data.google
                  IN IF c.result.executed THEN block = c.result
                     ELSE ~block.executed
      /\ e \in hist.returned =>
           /\ Cardinality(ResultsOf(j)) = 1
           /\ \A id \in ResultsOf(j) :
                Cardinality({k \in 1..Len(stream[3]) :
                               stream[3][k].job_id = id}) = 1

\* L2 has returned from a job whose Bing call accepted a url and whose Google
\* call raised
C23_Witness ==
  \E e \in hist.returned :
    /\ e[1] = 2
    /\ \E c \in hist.calls :
         c.job = JobOf(2, e[2]) /\ c.provider = "bing" /\ c.result.urls # {}
    /\ \E c \in hist.calls :
         c.job = JobOf(2, e[2]) /\ c.provider = "google" /\ ~c.result.executed
    /\ ResultsOf(JobOf(2, e[2])) # {}

\* C38: in every L3 envelope written by L2 the block of a provider whose
\* credential passes the gate has executed true, so that the reason "failed"
\* is never produced, and the block of a provider whose credential does not
\* pass has executed false.
C38_GatePassedMeansExecuted ==
  \A e \in hist.handed :
    e[1] = 2 =>
      LET j == JobOf(2, e[2]) IN
      \A id \in ResultsOf(j) :
        /\ env[id].data.google.executed = PassesGate(env[j].data.googleConfig)
        /\ env[id].data.bing.executed = PassesGate(env[j].data.bingApiKey)

\* the L2 jobs in which both providers passed the credential gate, were
\* called, and accepted the url, listed under INDEX
AcceptedByBoth(shop, u) ==
  {j \in DOMAIN env :
     /\ env[j].stage = 2
     /\ env[j].shop = shop
     /\ u \in env[j].data.index
     /\ PassesGate(env[j].data.googleConfig)
     /\ PassesGate(env[j].data.bingApiKey)
     /\ \A p \in {"google", "bing"} :
          \E c \in hist.calls :
            c.job = j /\ c.provider = p /\ c.result.success /\ u \in c.result.urls}

\* C39: a url row is COMPLETED only if in one L2 job it was listed under
\* INDEX and both providers passed the credential gate and accepted it; so
\* no row with indexAction DELETE and no row of a shop with a credential for
\* one provider only is COMPLETED; and L1 never selects a row that is
\* Google-indexed.
C39_CompletedOnlyByBoth ==
  /\ [](\A k \in Shops \X Urls :
          rows[k].status = "COMPLETED" =>
            /\ AcceptedByBoth(k[1], k[2]) # {}
            /\ rows[k].indexAction # "DELETE"
            /\ PassesGate(creds[k[1]].googleConfig)
            /\ PassesGate(creds[k[1]].bingApiKey))
  /\ [][\A f \in hist'.fetched \ hist.fetched :
          \A u \in f.urls : ~rows[<<f.shop, u>>].isGoogleIndexed]_vars

\* an earlier job left u1 Google-indexed without Bing; this job selected u2
\* alone, both providers accepted it, and L3 set it to COMPLETED
C39_Witness ==
  /\ rows[<<"a.com", "u1">>].isGoogleIndexed
  /\ ~rows[<<"a.com", "u1">>].isBingIndexed
  /\ rows[<<"a.com", "u1">>].status = "PENDING"
  /\ rows[<<"a.com", "u2">>].status = "COMPLETED"
  /\ AcceptedByBoth("a.com", "u2") # {}
  /\ \E f \in hist.fetched : f.urls = {"u2"}

\* the entries of a stream that xreadgroup has returned and that no read
\* loop has handled, is handling, or has dropped
Unhandled(st) ==
  {m \in 1..cursor[st] :
     /\ <<st, m>> \notin hist.handed \cup hist.dropped
     /\ \A w \in DOMAIN worker :
          ~(worker[w].stage = st /\ worker[w].msg = m
              /\ worker[w].pc \in {"handle", "hget", "drop"})}

\* C40: when the shutdown flag is set between xreadgroup returning an entry
\* and the loop's handling of it, the loop returns: no task is created and
\* nothing is acknowledged or written.  The entry then stays in the pending
\* list under the consumer that read it, its envelope keeps status queued,
\* and no read loop handles it afterwards, also when the process is started
\* again.
C40_EntryReadAtShutdownIsLeft ==
  /\ [][\A w \in DOMAIN worker :
          (worker[w].pc = "handle" /\ worker[w].shutdown
             /\ worker'[w] # worker[w]) =>
            /\ worker'[w].pc = "exited"
            /\ tasks' = tasks
            /\ pending' = pending
            /\ env' = env
            /\ worker[w].msg \in Unhandled(worker[w].stage)']_vars
  /\ [](\A st \in Stages : \A m \in Unhandled(st) :
          /\ m \in DOMAIN pending[st]
          /\ pending[st][m][1] = st
          /\ StatusOf(stream[st][m].job_id) = "queued")
  /\ [][\A st \in Stages : \A m \in Unhandled(st) :
          /\ m \in Unhandled(st)'
          /\ pending'[st][m] = pending[st][m]]_vars

\* the process was started again after the flag made its loop return with
\* an entry read: the new loop has handed the entries that followed to
\* process_job, and the entry is still pending under the old consumer
C40_Witness ==
  \E st \in Stages : \E m \in Unhandled(st) :
    /\ st \in DOMAIN worker
    /\ worker[st].epoch = 1
    /\ pending[st][m] = <<st, 0>>
    /\ cursor[st] = Len(stream[st])
    /\ worker[st].pc = "read"
    /\ \E n \in m + 1..cursor[st] : <<st, n>> \in hist.returned

(***************************************************************************)
(* Claims about a chunk submitted to Bing.                                 *)
(***************************************************************************)
\* every POST of the chunk so far was answered by HTTP 429
OnlyRateLimited(ch) ==
  \A k \in DOMAIN ch.posts : ch.posts[k] = Http(429)

\* C24: for a chunk whose every POST is answered by HTTP 429, the waits before
\* the retries are 1 s, then 12 s, then 24 s.
C24_BackoffOneTwelveTwentyFour ==
  \A c \in DOMAIN call.chunk :
    OnlyRateLimited(call.chunk[c]) =>
      \A k \in DOMAIN call.chunk[c].delays :
        k <= 3 => call.chunk[c].delays[k] = <<1, 12, 24>>[k]

\* C25 as stated: for every chunk, whatever the answers, at most retry_limit
\* POSTs are made, and a chunk whose every POST is answered by HTTP 429 ends
\* with one BatchURLResult, of status rate_limited and attempts retry_limit.
C25_AttemptsAtMostRetryLimit ==
  \A c \in DOMAIN call.chunk :
    LET ch == call.chunk[c] IN
    /\ Len(ch.posts) <= call.retry_limit
    /\ (ch.pc = "done" /\ OnlyRateLimited(ch)) =>
         ch.returned = <<[status |-> "rate_limited",
                          attempts |-> call.retry_limit,
                          http_status |-> 429]>>

\* the POSTs a chunk may take: retry_limit, and one when retry_limit is below 1
AttemptLimit == IF call.retry_limit < 1 THEN 1 ELSE call.retry_limit

\* C25 amended: for every chunk, whatever the answers, at most retry_limit
\* POSTs are made when retry_limit is at least 1, and one POST when it is
\* below 1; a chunk whose every POST is answered by HTTP 429 ends with one
\* BatchURLResult, of status rate_limited, whose attempts is that number.
C25_AttemptsAtMostLimitOrOne ==
  \A c \in DOMAIN call.chunk :
    LET ch == call.chunk[c] IN
    /\ Len(ch.posts) <= AttemptLimit
    /\ ch.attempt <= AttemptLimit
    /\ (ch.pc = "done" /\ OnlyRateLimited(ch)) =>
         ch.returned = <<[status |-> "rate_limited",
                          attempts |-> AttemptLimit,
                          http_status |-> 429]>>
    /\ call.pc = "finalized" => Len(call.results) = Len(call.chunk)

\* with retry_limit 3, a chunk has ended after three POSTs answered by HTTP
\* 429, and process_job has collected the results
C25_Witness ==
  /\ call.pc = "finalized"
  /\ call.retry_limit = 3
  /\ \E c \in DOMAIN call.chunk :
       call.chunk[c].posts = <<Http(429), Http(429), Http(429)>>

\* the answers after which the claim has the chunk tried again
Transient(post) ==
  \/ post.kind = "http" /\ (post.status = 429 \/ post.status >= 500)
  \/ post.kind \in {"timeout", "client_error"}

\* C26: the status a chunk ends with is given by the answers to its POSTs: no
\* POST follows a 200, a 403 or another status below 500; the chunk has not
\* ended while its last answer is a status of 500 or more, a timeout or a
\* client error and fewer than retry_limit POSTs were made; ending on 200 it
\* has status success, on 403 quota_exceeded, and on a status of 500 or more,
\* a timeout, a client error or any status other than 200, 403 and 429 it has
\* status failed.
C26_StatusGivenByResponses ==
  \A c \in DOMAIN call.chunk :
    LET ch == call.chunk[c]
        n == Len(ch.posts)
    IN /\ \A k \in 1..(n - 1) : Transient(ch.posts[k])
       /\ ch.pc = "done" =>
            LET last == ch.posts[n] IN
            /\ Len(ch.returned) = 1
            /\ (Transient(last) /\ last # Http(429)) => n >= call.retry_limit
            /\ last = Http(200) => ch.returned[1].status = "success"
            /\ last = Http(403) => ch.returned[1].status = "quota_exceeded"
            /\ (last.kind = "http" /\ last.status \notin {200, 403, 429}) =>
                 ch.returned[1].status = "failed"
            /\ last.kind \in {"timeout", "client_error"} =>
                 ch.returned[1].status = "failed"

\* with retry_limit 3, a chunk answered 500, 500 and 200 has ended, and
\* another chunk has ended on a 403 at its first POST
C26_Witness ==
  /\ call.retry_limit = 3
  /\ \E c \in DOMAIN call.chunk :
       /\ call.chunk[c].pc = "done"
       /\ call.chunk[c].posts = <<Http(500), Http(500), Http(200)>>
  /\ \E c \in DOMAIN call.chunk :
       /\ call.chunk[c].pc = "done"
       /\ call.chunk[c].posts = <<Http(403)>>

\* C28: in every stage, once process_job has returned for an entry whose
\* job has no shop, the envelope of the job has status failed and the entry
\* is acknowledged.
C28_InvalidPayloadFailsAndAcks ==
  \A e \in hist.returned :
    (JobOf(e[1], e[2]) \in DOMAIN env
       /\ env[JobOf(e[1], e[2])].data.kind = "no_shop")
      => /\ env[JobOf(e[1], e[2])].status = "failed"
         /\ Acked(e[1], e[2])

\* C29: once shutdown_event is set the read loop of the worker process
\* eventually exits, and the connection to the kv-store is closed only when
\* every task of the process has finished or was cancelled: it is never
\* closed while a task of the process is still running.
C29_LoopExitsAndCloseWaits ==
  /\ [](\A w \in DOMAIN worker :
          worker[w].pc = "closed" => {t \in TasksOf(w) : ~t.cancelled} = {})
  /\ \A w \in Stages :
       (w \in DOMAIN worker /\ worker[w].shutdown)
         ~> (w \in DOMAIN worker /\ worker[w].pc \in {"exited", "closed"})

\* the flag was set while tasks were in flight; one entry was handled to its
\* end, the task of another was cancelled, and the connection is closed
C29_Witness ==
  \E w \in DOMAIN worker :
    /\ worker[w].shutdown
    /\ worker[w].pc = "closed"
    /\ hist.returned # {}
    /\ hist.cancelled # {}

\* a producer or a handler has written envelope id and r.expire on it is its
\* next command
AboutToExpire(id) ==
  \/ \E i \in DOMAIN sched : sched[i].pc = "job_expire" /\ sched[i].job = id
  \/ \E t \in tasks : t.pc = "next_expire" /\ t.next = id
  \/ \E t \in tasks : t.pc \in {"done_expire", "fail_expire"} /\ t.job = id

\* C34: every envelope key carries a TTL: a key is without one only between
\* the write that created it and the expire that follows, and every write
\* that puts status completed or failed on an envelope is followed by an
\* expire on its key.
C34_EveryEnvelopeHasTtl ==
  /\ [](\A id \in DOMAIN env : env[id].ttl \/ AboutToExpire(id))
  /\ [][\A id \in DOMAIN env' :
          (/\ env'[id].status \in Terminal
           /\ id \in DOMAIN env => env[id].status # env'[id].status)
            => AboutToExpire(id)']_vars

\* C35: process_job of the Bing processor terminates for every number of
\* chunks, every max_concurrent of 1 or more and every sequence of answers:
\* every chunk yields a BatchURLResult and asyncio.gather returns.
C35_BingJobTerminates ==
  <>(/\ call.pc = "finalized"
     /\ Len(call.results) = Len(call.chunk))

\* C36: at every hop (scheduler to L1, L1 to L2, L2 to L3) the envelope is
\* written before the stream entry is appended: every step that appends an
\* entry names a job whose envelope, of that stage and with its data, is in
\* the kv-store already, so every entry refers to such an envelope; and,
\* while no envelope expires, no consumer meets a ghost job.
C36_EnvelopeBeforeEntry ==
  /\ [](\A st \in Stages : \A k \in 1..Len(stream[st]) :
          /\ JobOf(st, k) \in DOMAIN env
          /\ env[JobOf(st, k)].stage = st
          /\ env[JobOf(st, k)].data.kind \notin {"none", "bad_json"})
  /\ [](hist.dropped = {})
  /\ [][\A st \in Stages : Len(stream'[st]) > Len(stream[st]) =>
          /\ stream'[st][Len(stream'[st])].job_id \in DOMAIN env
          /\ env[stream'[st][Len(stream'[st])].job_id].data =
               env'[stream'[st][Len(stream'[st])].job_id].data]_vars

\* an entry was appended at each hop, and the consumer of each stage has
\* read its entry and handed the job to process_job
C36_Witness ==
  /\ \A st \in Stages : Len(stream[st]) >= 1
  /\ \A st \in Stages : <<st, 1>> \in hist.handed

(***************************************************************************)
(* Claims about a chunk submitted to Google.                               *)
(***************************************************************************)
\* the results recorded for the url at position i of the chunk
ResultsFor(i) ==
  {j \in DOMAIN call.results : call.results[j].url = i}

\* C27: every result recorded for a url of a chunk is given by the
\* sub-response of that url alone: status success with http_status 200 for a
\* 200, quota_exceeded for an HTTP 429, failed for any other error; a url has
\* no more than one result, and once batch.execute has made its callbacks
\* every url has one.
C27_ResultGivenByOwnResponse ==
  \A i \in DOMAIN call.subs :
    /\ Cardinality(ResultsFor(i)) <= 1
    /\ (call.pc = "done" /\ call.k = Len(call.added)) => ResultsFor(i) # {}
    /\ \A j \in ResultsFor(i) :
         LET res == call.results[j]
             sub == call.subs[i]
         IN /\ sub = Http(200) => res.status = "success" /\ res.http_status = 200
            /\ sub = Http(429) => res.status = "quota_exceeded"
            /\ sub \notin {Http(200), Http(429)} => res.status = "failed"

\* a chunk of three urls is done: the first url was answered by 429, the
\* second by 200, the third by 500
C27_Witness ==
  /\ call.pc = "done"
  /\ call.subs = <<Http(429), Http(200), Http(500)>>
  /\ Len(call.results) = 3

====
